---------------------------- MODULE Spec2Model ----------------------------
(***************************************************************************)
(* Calendar Bases: the month view (CalendarView / CalendarReactView) and   *)
(* the linear year view (LinearView / LinearReactView) over the host's     *)
(* records.  Dates are civil dates with a time-of-day mark; strings are    *)
(* sequences of one-character strings so that formatting and parsing are   *)
(* real conversions.                                                       *)
(***************************************************************************)
EXTENDS Integers, Sequences, FiniteSets, TLC

VARIABLES
  thisYear,          \* new Date().getFullYear(): the wall clock's year
  data,              \* LinearView.data: the host's query result, NULL before the first one
  linStartDateProp,  \* LinearView.startDateProp
  linEndDateProp,    \* LinearView.endDateProp
  linOrder,          \* LinearView.config.getOrder(): the properties shown in a cell
  linEntries,        \* LinearView.entries
  linRoot,           \* LinearView.root # null: the React tree is mounted
  entriesByDate,     \* LinearReactView: the memoised day-map of the last render
  years,             \* LinearReactView: the memoised year list of the last render
  currentYear,       \* LinearReactView: useState currentYear
  yearGrid,          \* LinearReactView: the grid renderAlignedYear made last, NULL when none
  vault,             \* host: the notes of the vault, with their front matter
  calData,           \* CalendarView.data: the host's query result, NULL before the first one
  calStartDateProp,  \* CalendarView.startDateProp
  calEndDateProp,    \* CalendarView.endDateProp
  calEntries,        \* CalendarView.entries
  calRoot,           \* CalendarView.root # null: the React tree is mounted
  events,            \* CalendarReactView: the events handed to the widget by the last render
  editable,          \* CalendarReactView: the editable flag handed to the widget
  drop,              \* the drop being handled, or the last one handled; NULL before the first
  configValues,      \* host: what this.config.get returns for each display option
  calOptions,        \* CalendarView: the display option fields
  linOptions,        \* LinearView: the display option fields
  imageCase,         \* the entry and the vault resolveEntryImage was last called with, or NULL
  entryImage,        \* what resolveEntryImage returned last, NULL when it returned null
  effectDeps,        \* LinearReactView: the dependencies the layout effect last ran with, NULL when unmounted
  effects,           \* LinearReactView: the closures of the layout effect's runs, oldest first
  frames,            \* window: the animation frame requests not yet fired or cancelled
  handles,           \* window: the last handle requestAnimationFrame returned
  layoutVars         \* container.style: who wrote --linear-col-width and --linear-col-gap last, NULL when unset

linVars == <<thisYear, yearGrid, data, linStartDateProp, linEndDateProp, linOrder, linEntries,
             linRoot, entriesByDate, years, currentYear>>

calVars == <<vault, calData, calStartDateProp, calEndDateProp, calEntries,
             calRoot, events, editable, drop>>

optVars == <<configValues, calOptions, linOptions>>

imgVars == <<imageCase, entryImage>>

effVars == <<effectDeps, effects, frames, handles, layoutVars>>

vars == <<linVars, calVars, optVars, imgVars, effVars>>

(***************************************************************************)
(* Bounds of the model.                                                    *)
(***************************************************************************)
MaxRecords == 2      \* records in the host's query result
MaxSpan == 70        \* most days between the start and the end of a record

NULL == [null |-> TRUE]   \* null / undefined

(***************************************************************************)
(* JavaScript Date, as the code uses it: local civil date y-m-d (m is      *)
(* 0-based as getMonth() reports it) and a time-of-day t (0 = midnight,    *)
(* 1 = a time later in the day).                                           *)
(***************************************************************************)
Date(y, m, d, t) == [y |-> y, m |-> m, d |-> d, t |-> t]

IsLeapYear(year) == (year % 4 = 0 /\ year % 100 # 0) \/ year % 400 = 0

\* daysInMonth with February always 28 days long
daysInMonth_NoLeap(year, month) ==
  IF month = 1 THEN 28
  ELSE IF month \in {3, 5, 8, 10} THEN 30 ELSE 31

\* bases.ts:50 daysInMonth = new Date(year, month + 1, 0).getDate()
daysInMonth(year, month) ==
  IF month = 1 THEN (IF IsLeapYear(year) THEN 29 ELSE 28)
  ELSE IF month \in {3, 5, 8, 10} THEN 30 ELSE 31

\* new Date(y, m, d) of a date's own getFullYear/getMonth/getDate: the same
\* day at local midnight
NewDate(y, m, d) == Date(y, m, d, 0)

\* new Date(date): a copy
CopyDate(date) == date

\* date.setDate(n) for n within one month of the date's own month
setDate(date, n) ==
  IF n < 1
  THEN LET pm == IF date.m = 0 THEN 11 ELSE date.m - 1
           py == IF date.m = 0 THEN date.y - 1 ELSE date.y
       IN  [date EXCEPT !.y = py, !.m = pm, !.d = daysInMonth(py, pm) + n]
  ELSE IF n > daysInMonth(date.y, date.m)
  THEN LET nm == IF date.m = 11 THEN 0 ELSE date.m + 1
           ny == IF date.m = 11 THEN date.y + 1 ELSE date.y
       IN  [date EXCEPT !.y = ny, !.m = nm, !.d = n - daysInMonth(date.y, date.m)]
  ELSE [date EXCEPT !.d = n]

\* a < b and a <= b on Date objects compare the time values
DateLT(a, b) ==
  \/ a.y < b.y
  \/ a.y = b.y /\ a.m < b.m
  \/ a.y = b.y /\ a.m = b.m /\ a.d < b.d
  \/ a.y = b.y /\ a.m = b.m /\ a.d = b.d /\ a.t < b.t

DateLE(a, b) == ~DateLT(b, a)

(***************************************************************************)
(* Strings.                                                                *)
(***************************************************************************)
DigitChars == <<"0", "1", "2", "3", "4", "5", "6", "7", "8", "9">>

\* String(n) of a non-negative integer
RECURSIVE StringOf(_)
StringOf(n) ==
  IF n < 10 THEN <<DigitChars[n + 1]>>
  ELSE StringOf(n \div 10) \o <<DigitChars[(n % 10) + 1]>>

\* s.padStart(2, "0")
padStart2(s) == IF Len(s) < 2 THEN <<"0">> \o s ELSE s

\* bases.ts:53 dateKey
dateKey(year, month, day) ==
  StringOf(year) \o <<"-">> \o padStart2(StringOf(month + 1))
                 \o <<"-">> \o padStart2(StringOf(day))


(***************************************************************************)
(* The host: records, their front matter and the typed property lookup.    *)
(* Property identifiers are strings "<type>.<name>"; "" is no property.    *)
(***************************************************************************)
NoProp == << >>
NoteStart == <<"n", "o", "t", "e", ".", "s", "t", "a", "r", "t">>
NoteEnd == <<"n", "o", "t", "e", ".", "e", "n", "d">>
FileCtime == <<"f", "i", "l", "e", ".", "c", "t", "i", "m", "e">>
NotePrefix == <<"n", "o", "t", "e", ".">>

\* s.startsWith(prefix)
startsWith(s, prefix) ==
  Len(s) >= Len(prefix) /\ SubSeq(s, 1, Len(prefix)) = prefix

\* s.slice(n)
slice(s, n) == SubSeq(s, n + 1, Len(s))

DigitVal(c) == CHOOSE i \in 0..9 : DigitChars[i + 1] = c
IsDigit(c) == \E i \in 1..10 : DigitChars[i] = c

\* the host's YAML text of a date: YYYY-MM-DD, with a time when it has one
IsoText(date) ==
  <<DigitChars[(date.y \div 1000) + 1], DigitChars[((date.y \div 100) % 10) + 1],
    DigitChars[((date.y \div 10) % 10) + 1], DigitChars[(date.y % 10) + 1], "-",
    DigitChars[((date.m + 1) \div 10) + 1], DigitChars[((date.m + 1) % 10) + 1], "-",
    DigitChars[(date.d \div 10) + 1], DigitChars[(date.d % 10) + 1]>>
  \o (IF date.t = 1 THEN <<"T", "1", "0", ":", "0", "0">> ELSE << >>)

\* the host reads a front-matter text as a date when it is YYYY-MM-DD[T...]
IsIsoText(s) ==
  /\ Len(s) >= 10
  /\ \A i \in {1, 2, 3, 4, 6, 7, 9, 10} : IsDigit(s[i])
  /\ s[5] = "-" /\ s[8] = "-"
  /\ Len(s) > 10 => s[11] = "T"
  /\ 10 * DigitVal(s[6]) + DigitVal(s[7]) \in 1..12
  /\ 10 * DigitVal(s[9]) + DigitVal(s[10]) \in 1..31

ParseIso(s) ==
  Date(1000 * DigitVal(s[1]) + 100 * DigitVal(s[2]) + 10 * DigitVal(s[3]) + DigitVal(s[4]),
       10 * DigitVal(s[6]) + DigitVal(s[7]) - 1,
       10 * DigitVal(s[9]) + DigitVal(s[10]),
       IF Len(s) > 10 THEN 1 ELSE 0)

\* a front-matter text with the shape of a date, whatever its month and day
IsDateShaped(s) ==
  /\ Len(s) >= 10
  /\ \A i \in {1, 2, 3, 4, 6, 7, 9, 10} : IsDigit(s[i])
  /\ s[5] = "-" /\ s[8] = "-"

\* a formula property the host cannot evaluate
FormulaPrefix == <<"f", "o", "r", "m", "u", "l", "a", ".">>
FormulaBroken == FormulaPrefix \o <<"x">>

\* what a call leaves when it throws
Thrown == [thrown |-> TRUE]

\* entry.getValue(propId): the host's typed lookup of a property of a record;
\* it throws for a formula that fails, and a text with the shape of a date
\* that names no day is date-typed without a date
getValue(rec, propId) ==
  IF startsWith(propId, FormulaPrefix) THEN Thrown
  ELSE IF startsWith(propId, NotePrefix)
  THEN LET name == slice(propId, 5) IN
       IF name \notin DOMAIN rec.fm THEN NULL
       ELSE IF IsIsoText(rec.fm[name]) THEN [kind |-> "date", date |-> ParseIso(rec.fm[name])]
       ELSE IF IsDateShaped(rec.fm[name]) THEN [kind |-> "date", date |-> NULL]
       ELSE [kind |-> "string"]
  ELSE IF propId = FileCtime THEN [kind |-> "date", date |-> rec.ctime]
  ELSE NULL

\* the front matter of a record with a start text and an optional end text
FrontMatter(startText, endText) ==
  (slice(NoteStart, 5) :> startText)
    @@ (IF endText = << >> THEN << >> ELSE (slice(NoteEnd, 5) :> endText))

Record(file, startText, endText) ==
  [file |-> file, ctime |-> Date(2024, 0, 1, 1), fm |-> FrontMatter(startText, endText)]

\* days from 2000-01-01 to a civil date (years 2001..2099)
CumDays == <<0, 31, 59, 90, 120, 151, 181, 212, 243, 273, 304, 334>>
DayNumber(date) ==
  365 * (date.y - 2000) + ((date.y - 2000 + 3) \div 4)
    + CumDays[date.m + 1] + (IF date.y % 4 = 0 /\ date.m > 1 THEN 1 ELSE 0)
    + date.d - 1

(***************************************************************************)
(* LinearView: extraction of the entries from the host's records.          *)
(***************************************************************************)
\* extractDate with a catch that answers with the file's creation time
extractDate_CatchGivesCtime(rec, propId) ==
  LET value == getValue(rec, propId) IN
  IF value = Thrown THEN rec.ctime
  ELSE IF value = NULL THEN NULL
  ELSE IF value.kind # "date" THEN NULL
  ELSE IF value.date # NULL THEN value.date
  ELSE NULL

\* LinearView.extractDate, and CalendarView.extractDate, which has the same
\* text
extractDate(rec, propId) ==
  LET value == getValue(rec, propId) IN
  IF value = Thrown THEN NULL
  ELSE IF value = NULL THEN NULL
  ELSE IF value.kind # "date" THEN NULL
  ELSE IF value.date # NULL THEN value.date
  ELSE NULL

\* LinearView.updateLinearCalendar, the loop over this.data.data
RECURSIVE extractEntries(_, _, _, _)
extractEntries(records, i, startProp, endProp) ==
  IF i > Len(records) THEN << >>
  ELSE LET startDate == extractDate(records[i], startProp)
           endDate == IF endProp # NoProp THEN extractDate(records[i], endProp) ELSE NULL
       IN  (IF startDate # NULL
            THEN <<[entry |-> records[i].file, startDate |-> startDate, endDate |-> endDate]>>
            ELSE << >>)
           \o extractEntries(records, i + 1, startProp, endProp)

(***************************************************************************)
(* LinearReactView: the memoised day-map and year list.                    *)
(***************************************************************************)
\* while (iter <= end) { ...dateKey(iter)...; iter.setDate(iter.getDate() + 1) }:
\* the keys the loop visits, in order
RECURSIVE walkDays(_, _)
walkDays(iter, end) ==
  IF DateLE(iter, end)
  THEN <<dateKey(iter.y, iter.m, iter.d)>> \o walkDays(setDate(iter, iter.d + 1), end)
  ELSE << >>

\* if (!map.has(key)) map.set(key, []); map.get(key).push(entry), for each
\* key the loop visits: one push per visit
MapPush(map, keys, entry) ==
  [k \in DOMAIN map \cup {keys[i] : i \in 1..Len(keys)} |->
     (IF k \in DOMAIN map THEN map[k] ELSE << >>)
       \o [n \in 1..Cardinality({i \in 1..Len(keys) : keys[i] = k}) |-> entry]]

Min(a, b) == IF a < b THEN a ELSE b
Max(a, b) == IF a > b THEN a ELSE b
SetMaxOf(S) == CHOOSE x \in S : \A y \in S : x >= y

\* the loop pass with a reversed range put in order instead of skipped
memoStep_Swapped(acc, entry) ==
  LET s0 == NewDate(entry.startDate.y, entry.startDate.m, entry.startDate.d)
      e0 == IF entry.endDate # NULL
            THEN NewDate(entry.endDate.y, entry.endDate.m, entry.endDate.d)
            ELSE CopyDate(s0)
      start == IF DateLT(e0, s0) THEN e0 ELSE s0
      end == IF DateLT(e0, s0) THEN s0 ELSE e0
      map == MapPush(acc.map, walkDays(CopyDate(start), end), entry)
      min1 == IF acc.minYear = NULL THEN start.y ELSE Min(acc.minYear.v, start.y)
      max1 == IF acc.maxYear = NULL THEN end.y ELSE Max(acc.maxYear.v, end.y)
  IN  [map |-> map, minYear |-> [v |-> min1], maxYear |-> [v |-> max1]]

\* the loop pass taking the years of an entry before it skips a reversed range
memoStep_YearsBeforeSkip(acc, entry) ==
  LET start == NewDate(entry.startDate.y, entry.startDate.m, entry.startDate.d)
      end == IF entry.endDate # NULL
             THEN NewDate(entry.endDate.y, entry.endDate.m, entry.endDate.d)
             ELSE CopyDate(start)
      min1 == IF acc.minYear = NULL THEN entry.startDate.y
              ELSE Min(acc.minYear.v, entry.startDate.y)
      max1 == IF acc.maxYear = NULL THEN entry.startDate.y
              ELSE Max(acc.maxYear.v, entry.startDate.y)
      min2 == IF entry.endDate # NULL THEN Min(min1, entry.endDate.y) ELSE min1
      max2 == IF entry.endDate # NULL THEN Max(max1, entry.endDate.y) ELSE max1
      map == IF DateLT(end, start) THEN acc.map
             ELSE MapPush(acc.map, walkDays(CopyDate(start), end), entry)
  IN  [map |-> map, minYear |-> [v |-> min2], maxYear |-> [v |-> max2]]

\* one pass of the loop over the entries: acc is (map, minYear, maxYear)
memoStep(acc, entry) ==
  LET start == NewDate(entry.startDate.y, entry.startDate.m, entry.startDate.d)
      end == IF entry.endDate # NULL
             THEN NewDate(entry.endDate.y, entry.endDate.m, entry.endDate.d)
             ELSE CopyDate(start)
  IN  IF DateLT(end, start) THEN acc
      ELSE LET map == MapPush(acc.map, walkDays(CopyDate(start), end), entry)
               min1 == IF acc.minYear = NULL THEN entry.startDate.y
                       ELSE Min(acc.minYear.v, entry.startDate.y)
               max1 == IF acc.maxYear = NULL THEN entry.startDate.y
                       ELSE Max(acc.maxYear.v, entry.startDate.y)
               min2 == IF entry.endDate # NULL THEN Min(min1, entry.endDate.y) ELSE min1
               max2 == IF entry.endDate # NULL THEN Max(max1, entry.endDate.y) ELSE max1
           IN  [map |-> map, minYear |-> [v |-> min2], maxYear |-> [v |-> max2]]

RECURSIVE memoLoop(_, _, _)
memoLoop(entries, i, acc) ==
  IF i > Len(entries) THEN acc
  ELSE memoLoop(entries, i + 1, memoStep(acc, entries[i]))

\* the year loop with y < resolvedMax
yearList_Exclusive(resolvedMin, resolvedMax) ==
  [i \in 1..(IF resolvedMax > resolvedMin THEN resolvedMax - resolvedMin ELSE 0)
     |-> resolvedMin + i - 1]

\* for (let y = resolvedMin; y <= resolvedMax; y++) yearList.push(y)
yearList(resolvedMin, resolvedMax) ==
  [i \in 1..(IF resolvedMax >= resolvedMin THEN resolvedMax - resolvedMin + 1 ELSE 0)
     |-> resolvedMin + i - 1]

\* useMemo(() => { ... }, [entries]): entriesByDate and years
memo(entries, now) ==
  LET acc == memoLoop(entries, 1, [map |-> << >>, minYear |-> NULL, maxYear |-> NULL])
      resolvedMin == IF acc.minYear # NULL THEN acc.minYear.v ELSE now
      resolvedMax == IF acc.maxYear # NULL THEN acc.maxYear.v ELSE resolvedMin
  IN  [entriesByDate |-> acc.map, years |-> yearList(resolvedMin, resolvedMax)]

includes(seq, x) == \E i \in 1..Len(seq) : seq[i] = x

\* useState initialiser of currentYear
initialYear(yearSeq, now) ==
  IF includes(yearSeq, now) THEN now
  ELSE IF Len(yearSeq) > 0 THEN yearSeq[1] ELSE now

(***************************************************************************)
(* The records the host may hold under the linear view.                    *)
(***************************************************************************)
ClockYears == {2024, 2026}

\* the notes of the vault under the linear view, by file: a day at the end of
\* 2023, four days over the end of 2023, a day in 2025 with an end before it,
\* a day in 2025, and a note whose start is no date
NotADate == <<"t", "b", "d">>

LinTexts ==
  <<<<IsoText(Date(2023, 11, 30, 1)), << >> >>,
    <<IsoText(Date(2023, 11, 30, 0)), IsoText(Date(2024, 0, 2, 1))>>,
    <<IsoText(Date(2025, 2, 30, 0)), IsoText(Date(2024, 1, 28, 0))>>,
    <<IsoText(Date(2025, 2, 30, 0)), << >> >>,
    <<NotADate, << >> >> >>

FilesOf(records) == {records[i].file : i \in 1..Len(records)}

RemoveAt(seq, i) == SubSeq(seq, 1, i - 1) \o SubSeq(seq, i + 1, Len(seq))

\* the query results the host may deliver next: one note more, one note less,
\* or the same notes again
NextRecords(records, texts) ==
  {records}
    \cup {RemoveAt(records, i) : i \in 1..Len(records)}
    \cup (IF Len(records) < MaxRecords
          THEN {Append(records, Record(f, texts[f][1], texts[f][2])) :
                  f \in (1..Len(texts)) \ FilesOf(records)}
          ELSE {})

LinConfigs ==
  [startDate : {NoProp, NoteStart}, endDate : {NoProp, NoteEnd},
   order : {<< >>, <<NoteEnd>>}]

(***************************************************************************)
(* Display options: the values this.config holds and the views' getters.   *)
(***************************************************************************)
\* a JavaScript number: an integer, or NaN
Num(n) == [nan |-> FALSE, n |-> n]
NaN == [nan |-> TRUE, n |-> 0]

\* a value this.config.get(key) returns
JsValue(type, bool, num, str) == [type |-> type, bool |-> bool, num |-> num, str |-> str]
Undefined == JsValue("undefined", FALSE, NaN, << >>)
Null == JsValue("null", FALSE, NaN, << >>)
Object == JsValue("object", FALSE, NaN, << >>)
Boolean(b) == JsValue("boolean", b, NaN, << >>)
NumberValue(num) == JsValue("number", FALSE, num, << >>)
String(s) == JsValue("string", FALSE, NaN, s)

\* typeof value
typeof(value) == IF value.type = "null" THEN "object" ELSE value.type

\* the truthiness of a value
truthy(value) ==
  CASE value.type = "boolean" -> value.bool
    [] value.type = "number" -> ~value.num.nan /\ value.num.n # 0
    [] value.type = "string" -> value.str # << >>
    [] value.type = "object" -> TRUE
    [] OTHER -> FALSE

RECURSIVE trimStart(_)
trimStart(s) == IF s # << >> /\ s[1] = " " THEN trimStart(Tail(s)) ELSE s

RECURSIVE trimEnd(_)
trimEnd(s) ==
  IF s # << >> /\ s[Len(s)] = " " THEN trimEnd(SubSeq(s, 1, Len(s) - 1)) ELSE s

\* String.prototype.trim
trim(s) == trimEnd(trimStart(s))

RECURSIVE DigitsValue(_)
DigitsValue(s) ==
  IF s = << >> THEN 0
  ELSE 10 * DigitsValue(SubSeq(s, 1, Len(s) - 1)) + DigitVal(s[Len(s)])

\* Number(string) over texts of digits, signs, blanks and letters: blanks
\* around the text are dropped, the empty text is 0, an optionally signed run
\* of digits is its value, and anything else is NaN
Number(s) ==
  LET t == trim(s)
      signed == t # << >> /\ t[1] \in {"-", "+"}
      digits == IF signed THEN Tail(t) ELSE t
  IN  IF t = << >> THEN Num(0)
      ELSE IF digits # << >> /\ \A i \in 1..Len(digits) : IsDigit(digits[i])
           THEN Num(IF t[1] = "-" THEN 0 - DigitsValue(digits) ELSE DigitsValue(digits))
           ELSE NaN

\* the getters' first step: a number as it is, a string through Number,
\* anything else undefined
numericValue_NoStrings(rawValue) ==
  IF typeof(rawValue) = "number" THEN rawValue.num ELSE NULL

numericValue(rawValue) ==
  IF typeof(rawValue) = "number" THEN rawValue.num
  ELSE IF typeof(rawValue) = "string" THEN Number(rawValue.str)
  ELSE NULL

\* typeof numericValue !== "number" || Number.isNaN(numericValue)
notANumber(value) == IF value = NULL THEN TRUE ELSE value.nan

\* the quotient num / den
Frac(num, den) == [num |-> num, den |-> den]

\* CalendarView.getOverlayOpacity
calGetOverlayOpacity(values) ==
  LET value == numericValue(values.propertyOverlayOpacity)
  IN  IF notANumber(value) THEN Frac(6, 10)
      ELSE Frac(Max(0, Min(100, value.n)), 100)

\* CalendarView.getDayNumberSize
calGetDayNumberSize(values) ==
  LET value == numericValue(values.dayNumberSize)
  IN  IF notANumber(value) THEN 18 ELSE Max(12, Min(40, value.n))

\* CalendarView.getDayCellHeight
calGetDayCellHeight(values) ==
  LET value == numericValue(values.dayCellHeight)
  IN  IF notANumber(value) THEN 120 ELSE Max(80, Min(220, value.n))

\* CalendarView.getBooleanConfig
calGetBooleanConfig(values, key, fallback) ==
  IF typeof(values[key]) = "boolean" THEN values[key].bool ELSE fallback

\* the own keys of dayNameToNumber, in the order of their numbers from 0
DayNames ==
  << <<"s", "u", "n", "d", "a", "y">>, <<"m", "o", "n", "d", "a", "y">>,
     <<"t", "u", "e", "s", "d", "a", "y">>, <<"w", "e", "d", "n", "e", "s", "d", "a", "y">>,
     <<"t", "h", "u", "r", "s", "d", "a", "y">>, <<"f", "r", "i", "d", "a", "y">>,
     <<"s", "a", "t", "u", "r", "d", "a", "y">> >>

\* keys every object literal inherits from Object.prototype
ObjectPrototypeKeys ==
  { <<"v", "a", "l", "u", "e", "O", "f">>,
    <<"t", "o", "S", "t", "r", "i", "n", "g">>,
    <<"c", "o", "n", "s", "t", "r", "u", "c", "t", "o", "r">> }

\* dayNameToNumber[key]: a number for an own key, the inherited member for a
\* key of the prototype, undefined otherwise
dayNameToNumber(key) ==
  IF \E n \in 1..Len(DayNames) : DayNames[n] = key
  THEN [number |-> (CHOOSE n \in 1..Len(DayNames) : DayNames[n] = key) - 1]
  ELSE IF key \in ObjectPrototypeKeys THEN [inherited |-> key]
  ELSE NULL

\* the key a value is coerced to when it indexes an object: a string is its
\* own text; the other values become texts that name no member
propertyKey(value) == IF value.type = "string" THEN value.str ELSE <<"?">>

\* CalendarView.loadConfig: the week start
calWeekStartDay(values) ==
  LET weekStartDayValue == values.weekStartDay
      found == dayNameToNumber(propertyKey(weekStartDayValue))
  IN  IF truthy(weekStartDayValue)
      THEN (IF found = NULL THEN [number |-> 1] ELSE found)
      ELSE [number |-> 1]

\* CalendarView.loadConfig: the display options
calLoadConfig(values) ==
  [propertyOverlayOpacity |-> calGetOverlayOpacity(values),
   dayNumberSize |-> calGetDayNumberSize(values),
   alignPropertiesBottom |-> calGetBooleanConfig(values, "alignPropertiesBottom", FALSE),
   dayCellHeight |-> calGetDayCellHeight(values),
   weekStartDay |-> calWeekStartDay(values)]

\* LinearView.getOverlayOpacity
linGetOverlayOpacity(values) ==
  LET value == numericValue(values.propertyOverlayOpacity)
  IN  IF notANumber(value) THEN Frac(6, 10)
      ELSE Frac(Max(0, Min(100, value.n)), 100)

\* LinearView.getDayNumberSize
linGetDayNumberSize(values) ==
  LET value == numericValue(values.dayNumberSize)
  IN  IF notANumber(value) THEN 18 ELSE Max(12, Min(40, value.n))

\* LinearView.getDayCellHeight
linGetDayCellHeight(values) ==
  LET value == numericValue(values.dayCellHeight)
  IN  IF notANumber(value) THEN 120 ELSE Max(80, Min(220, value.n))

\* LinearView.getBooleanConfig
linGetBooleanConfig(values, key, fallback) ==
  IF typeof(values[key]) = "boolean" THEN values[key].bool ELSE fallback

\* LinearView.getChipScale
linGetChipScale(values) ==
  LET value == numericValue(values.propertyChipScale)
  IN  IF notANumber(value) THEN Frac(1, 1)
      ELSE Frac(Max(60, Min(160, value.n)), 100)

\* loadConfig taking highlightWeekends as it is stored
linLoadConfig_HighlightAsStored(values) ==
  [propertyOverlayOpacity |-> linGetOverlayOpacity(values),
   dayNumberSize |-> linGetDayNumberSize(values),
   alignPropertiesBottom |-> linGetBooleanConfig(values, "alignPropertiesBottom", FALSE),
   alignWeekdays |-> linGetBooleanConfig(values, "alignWeekdays", FALSE),
   propertyChipScale |-> linGetChipScale(values),
   highlightWeekends |-> linGetBooleanConfig(values, "highlightWeekends", FALSE),
   dayCellHeight |-> linGetDayCellHeight(values)]

\* LinearView.loadConfig: the display options
linLoadConfig(values) ==
  LET alignWeekdays == linGetBooleanConfig(values, "alignWeekdays", FALSE)
  IN  [propertyOverlayOpacity |-> linGetOverlayOpacity(values),
       dayNumberSize |-> linGetDayNumberSize(values),
       alignPropertiesBottom |-> linGetBooleanConfig(values, "alignPropertiesBottom", FALSE),
       alignWeekdays |-> alignWeekdays,
       propertyChipScale |-> linGetChipScale(values),
       highlightWeekends |-> IF alignWeekdays
                             THEN linGetBooleanConfig(values, "highlightWeekends", FALSE)
                             ELSE FALSE,
       dayCellHeight |-> linGetDayCellHeight(values)]

\* the display options as the constructors leave them
calConstructed ==
  [propertyOverlayOpacity |-> Frac(0, 1), dayNumberSize |-> 18,
   alignPropertiesBottom |-> FALSE, dayCellHeight |-> 120,
   weekStartDay |-> [number |-> 1]]

linConstructed ==
  [propertyOverlayOpacity |-> Frac(0, 1), dayNumberSize |-> 18,
   alignPropertiesBottom |-> FALSE, alignWeekdays |-> FALSE,
   propertyChipScale |-> Frac(1, 1), highlightWeekends |-> FALSE,
   dayCellHeight |-> 120]

\* the keys of the display options
OptionKeys ==
  {"propertyOverlayOpacity", "dayNumberSize", "dayCellHeight", "propertyChipScale",
   "alignPropertiesBottom", "alignWeekdays", "highlightWeekends", "weekStartDay"}

\* a configuration that sets no display option
NoValues == [k \in OptionKeys |-> Undefined]

(***************************************************************************)
(* Entry images: resolveEntryImage and what it calls.                      *)
(***************************************************************************)
IMAGE_FRONTMATTER_KEYS ==
  <<"cover", "image", "images", "thumbnail", "banner", "featured", "photo">>

IMAGE_EXTENSIONS ==
  << <<"p", "n", "g">>,
     <<"j", "p", "g">>,
     <<"j", "p", "e", "g">>,
     <<"g", "i", "f">>,
     <<"b", "m", "p">>,
     <<"s", "v", "g">>,
     <<"w", "e", "b", "p">>,
     <<"a", "v", "i", "f">>,
     <<"h", "e", "i", "c">>,
     <<"h", "e", "i", "f">>,
     <<"t", "i", "f">>,
     <<"t", "i", "f", "f">> >>

UpperCase == <<"A", "B", "C", "D", "E", "F", "G", "H", "I", "J", "K", "L", "M", "N", "O", "P", "Q", "R", "S", "T", "U", "V", "W", "X", "Y", "Z">>
LowerCase == <<"a", "b", "c", "d", "e", "f", "g", "h", "i", "j", "k", "l", "m", "n", "o", "p", "q", "r", "s", "t", "u", "v", "w", "x", "y", "z">>

\* String.prototype.toLowerCase, character by character
toLowerCase(s) ==
  [i \in 1..Len(s) |->
     IF \E n \in 1..Len(UpperCase) : UpperCase[n] = s[i]
     THEN LowerCase[CHOOSE n \in 1..Len(UpperCase) : UpperCase[n] = s[i]]
     ELSE s[i]]

endsWith(s, suffix) ==
  Len(s) >= Len(suffix) /\ SubSeq(s, Len(s) - Len(suffix) + 1, Len(s)) = suffix

\* String.prototype.indexOf for a character, from 0, -1 when absent
charIndexOf(s, c) ==
  IF \E i \in 1..Len(s) : s[i] = c
  THEN (CHOOSE i \in 1..Len(s) : s[i] = c /\ \A j \in 1..(i - 1) : s[j] # c) - 1
  ELSE 0 - 1

\* String.prototype.includes for a text
includesText(s, part) ==
  \E i \in 0..(Len(s) - Len(part)) : SubSeq(s, i + 1, i + Len(part)) = part

\* a file of the vault: a TFile
TFile(basename, extension) ==
  [path |-> basename \o <<".">> \o extension, basename |-> basename, extension |-> extension]

\* app.vault.getResourcePath
getResourcePath(file) == <<"r", "e", "s", ":">> \o file.path

\* a property value, a front-matter value or a candidate in one: a text, a
\* list of values, an object with text members, or a value holding a file
ImgValue(kind, s, items, fields) ==
  [kind |-> kind, s |-> s, items |-> items, fields |-> fields]
Text(s) == ImgValue("string", s, << >>, << >>)
List(items) == ImgValue("array", << >>, items, << >>)
Members(fields) == ImgValue("object", << >>, << >>, fields)
FileValue(path) == ImgValue("file", path, << >>, << >>)
Missing == ImgValue("undefined", << >>, << >>, << >>)

\* the image found: EntryImageInfo, alt and source empty when absent
ImageInfo(url, alt, source) == [url |-> url, alt |-> alt, source |-> source]

\* value.match(/^!?\[\[(.+?)\]\]$/): the text between the brackets, NULL
\* when there is no match
wikilinkMatch(value) ==
  LET body == IF startsWith(value, <<"!">>) THEN Tail(value) ELSE value
  IN  IF startsWith(body, <<"[", "[">>) /\ endsWith(body, <<"]", "]">>) /\ Len(body) >= 5
      THEN [v |-> SubSeq(body, 3, Len(body) - 2)]
      ELSE NULL

\* value.match(/^!\[[^\]]*]\((.+?)\)$/): the text between the parentheses
mdImageMatch(value) ==
  LET close == charIndexOf(value, "]") + 1
  IN  IF /\ startsWith(value, <<"!", "[">>)
         /\ close > 2
         /\ Len(value) >= close + 3
         /\ value[close + 1] = "("
         /\ value[Len(value)] = ")"
      THEN [v |-> SubSeq(value, close + 2, Len(value) - 1)]
      ELSE NULL

IsQuote(c) == c \in {"'", "\""}

\* value.replace(/^['"]|['"]$/g, "")
stripQuotes(value) ==
  LET head == IF value # << >> /\ IsQuote(value[1]) THEN Tail(value) ELSE value
  IN  IF head # << >> /\ IsQuote(head[Len(head)])
      THEN SubSeq(head, 1, Len(head) - 1)
      ELSE head

\* up to the first occurrence of the character
beforeChar(value, c) ==
  IF charIndexOf(value, c) # 0 - 1 THEN SubSeq(value, 1, charIndexOf(value, c)) ELSE value

\* sanitizeReference: the empty text for null
sanitizeReference(reference) ==
  LET trimmed == trim(reference)
      wiki == IF wikilinkMatch(trimmed) # NULL THEN wikilinkMatch(trimmed).v ELSE trimmed
      md == IF mdImageMatch(wiki) # NULL THEN mdImageMatch(wiki).v ELSE wiki
  IN  IF trimmed = << >> THEN << >>
      ELSE trim(stripQuotes(beforeChar(beforeChar(md, "|"), "#")))

\* isExternalImageUrl: /^(https?:)?\/\//i or a data:image URL
isExternalImageUrl(value) ==
  LET lower == toLowerCase(value)
  IN  \/ startsWith(lower, <<"/", "/">>)
      \/ startsWith(lower, <<"h", "t", "t", "p", ":", "/", "/">>)
      \/ startsWith(lower, <<"h", "t", "t", "p", "s", ":", "/", "/">>)
      \/ startsWith(value, <<"d", "a", "t", "a", ":", "i", "m", "a", "g", "e">>)

\* isImageFile
isImageFile(file) == includes(IMAGE_EXTENSIONS, toLowerCase(file.extension))

\* looksLikeImageReference
looksLikeImageReference(reference) ==
  \/ isExternalImageUrl(reference)
  \/ \E n \in 1..Len(IMAGE_EXTENSIONS) :
       includesText(toLowerCase(reference), <<".">> \o IMAGE_EXTENSIONS[n])

\* resolveFileFromPath: the host resolves a link path to the file of that
\* path, or to the note of that name; NULL when there is none
resolveFileFromPath(files, path) ==
  IF \E f \in files : f.path = path THEN CHOOSE f \in files : f.path = path
  ELSE IF \E f \in files : f.extension = <<"m", "d">> /\ f.basename = path
       THEN CHOOSE f \in files : f.extension = <<"m", "d">> /\ f.basename = path
       ELSE NULL

\* stringReferenceToImage
stringReferenceToImage(files, reference) ==
  LET sanitized == sanitizeReference(reference)
      file == resolveFileFromPath(files, sanitized)
  IN  IF sanitized = << >> THEN NULL
      ELSE IF isExternalImageUrl(sanitized) THEN ImageInfo(sanitized, << >>, "")
      ELSE IF file = NULL THEN NULL
      ELSE IF isImageFile(file) THEN ImageInfo(getResourcePath(file), file.basename, "")
      ELSE NULL

\* the first member of the keys that is a non-blank text, the empty text when
\* there is none
firstMember(fields, keys) ==
  LET hits == {k \in 1..Len(keys) :
                 \E i \in 1..Len(fields) : fields[i][1] = keys[k] /\ trim(fields[i][2]) # << >>}
      k == CHOOSE first \in hits : \A other \in hits : first <= other
      at == CHOOSE i \in 1..Len(fields) : fields[i][1] = keys[k] /\ trim(fields[i][2]) # << >>
  IN  IF hits = {} THEN << >> ELSE fields[at][2]

\* getReferenceFromValue: the empty text for null
getReferenceFromValue(value) ==
  IF value.kind = "object" THEN firstMember(value.fields, <<"path", "link", "url", "src">>)
  ELSE << >>

RECURSIVE firstImage(_, _, _)
RECURSIVE valueToImageInfo(_, _)
\* valueToImageInfo
valueToImageInfo(files, value) ==
  IF value.kind = "array" THEN firstImage(files, value.items, 1)
  ELSE IF value.kind = "file"
       THEN LET fileFromValue == CHOOSE f \in files : f.path = value.s
            IN  ImageInfo(getResourcePath(fileFromValue), fileFromValue.basename, "")
  ELSE IF getReferenceFromValue(value) # << >>
       THEN stringReferenceToImage(files, getReferenceFromValue(value))
  ELSE IF trim(value.s) = << >> THEN NULL
  ELSE stringReferenceToImage(files, trim(value.s))

\* valueToImageInfo: the loop over the items of a ListValue
firstImage(files, items, i) ==
  IF i > Len(items) THEN NULL
  ELSE IF valueToImageInfo(files, items[i]) # NULL THEN valueToImageInfo(files, items[i])
  ELSE firstImage(files, items, i + 1)

RECURSIVE firstNormalized(_, _)
RECURSIVE normalizeFrontmatterCandidate(_)
\* normalizeFrontmatterCandidate: the empty text for null
normalizeFrontmatterCandidate(candidate) ==
  IF candidate.kind = "string" THEN candidate.s
  ELSE IF candidate.kind = "array" THEN firstNormalized(candidate.items, 1)
  ELSE IF candidate.kind = "object"
       THEN firstMember(candidate.fields, <<"path", "file", "link", "url", "src">>)
  ELSE << >>

\* normalizeFrontmatterCandidate: the loop over a nested array
firstNormalized(items, i) ==
  IF i > Len(items) THEN << >>
  ELSE IF normalizeFrontmatterCandidate(items[i]) # << >>
       THEN normalizeFrontmatterCandidate(items[i])
  ELSE firstNormalized(items, i + 1)

\* !rawValue of a front-matter value
falsy(rawValue) ==
  rawValue.kind = "undefined" \/ (rawValue.kind = "string" /\ rawValue.s = << >>)

\* resolveFromFrontmatter: the loop over the candidates of one key
RECURSIVE candidatesLoop_LastWins(_, _, _, _)
candidatesLoop_LastWins(files, candidates, i, found) ==
  IF i > Len(candidates) THEN found
  ELSE LET normalized == normalizeFrontmatterCandidate(candidates[i])
           image == IF normalized = << >> THEN NULL
                    ELSE stringReferenceToImage(files, normalized)
       IN  candidatesLoop_LastWins(files, candidates, i + 1,
                                   IF image # NULL THEN image ELSE found)

RECURSIVE candidatesLoop(_, _, _, _)
candidatesLoop(files, candidates, i, found) ==
  IF i > Len(candidates) THEN found
  ELSE LET normalized == normalizeFrontmatterCandidate(candidates[i])
           image == IF normalized = << >> THEN NULL
                    ELSE stringReferenceToImage(files, normalized)
       IN  IF image # NULL THEN image
           ELSE candidatesLoop(files, candidates, i + 1, found)

\* resolveFromFrontmatter: the loop over the keys, from key k on
RECURSIVE keysLoop(_, _, _)
keysLoop(files, frontmatter, k) ==
  IF k > Len(IMAGE_FRONTMATTER_KEYS) THEN NULL
  ELSE LET rawValue == frontmatter[IMAGE_FRONTMATTER_KEYS[k]]
           candidates == IF rawValue.kind = "array" THEN rawValue.items ELSE <<rawValue>>
           image == IF falsy(rawValue) THEN NULL
                    ELSE candidatesLoop(files, candidates, 1, NULL)
       IN  IF image # NULL THEN image ELSE keysLoop(files, frontmatter, k + 1)

\* resolveFromFrontmatter; frontmatter is NULL when the note has none
resolveFromFrontmatter(files, frontmatter) ==
  IF frontmatter = NULL THEN NULL ELSE keysLoop(files, frontmatter, 1)

\* embedCacheToImage
embedCacheToImage(files, link) ==
  IF link = << >> THEN NULL
  ELSE IF ~looksLikeImageReference(link) THEN NULL
  ELSE stringReferenceToImage(files, link)

\* resolveFromEmbeds: the embeds from embed i on
RECURSIVE resolveFromEmbeds(_, _, _)
resolveFromEmbeds(files, embeds, i) ==
  IF i > Len(embeds) THEN NULL
  ELSE IF embedCacheToImage(files, embeds[i]) # NULL THEN embedCacheToImage(files, embeds[i])
  ELSE resolveFromEmbeds(files, embeds, i + 1)

\* the result of a tier with its source
tagged(info, source) == [info EXCEPT !.source = source]

\* resolveEntryImage; c.value is what tryGetValue gives for the image
\* property, c.cache whether the metadata cache knows the note
resolveEntryImage_FrontmatterFirst(c) ==
  LET viaProperty == IF c.imageProperty /\ c.value # NULL
                     THEN valueToImageInfo(c.files, c.value) ELSE NULL
      viaFrontmatter == resolveFromFrontmatter(c.files, c.frontmatter)
      viaEmbeds == resolveFromEmbeds(c.files, c.embeds, 1)
  IN  IF ~c.app THEN NULL
      ELSE IF c.cache /\ viaFrontmatter # NULL THEN tagged(viaFrontmatter, "frontmatter")
      ELSE IF viaProperty # NULL THEN tagged(viaProperty, "property")
      ELSE IF ~c.cache THEN NULL
      ELSE IF viaEmbeds # NULL THEN tagged(viaEmbeds, "embed")
      ELSE NULL

resolveEntryImage(c) ==
  LET viaProperty == IF c.imageProperty /\ c.value # NULL
                     THEN valueToImageInfo(c.files, c.value) ELSE NULL
      viaFrontmatter == resolveFromFrontmatter(c.files, c.frontmatter)
      viaEmbeds == resolveFromEmbeds(c.files, c.embeds, 1)
  IN  IF ~c.app THEN NULL
      ELSE IF viaProperty # NULL THEN tagged(viaProperty, "property")
      ELSE IF ~c.cache THEN NULL
      ELSE IF viaFrontmatter # NULL THEN tagged(viaFrontmatter, "frontmatter")
      ELSE IF viaEmbeds # NULL THEN tagged(viaEmbeds, "embed")
      ELSE NULL

(***************************************************************************)
(* LinearView and LinearReactView: operations.                             *)
(***************************************************************************)
\* LinearView.renderReactLinearCalendar with the entries of the next state:
\* a first render mounts the component, a later one keeps its state
renderReactLinearCalendar ==
  LET m == memo(linEntries', thisYear) IN
  /\ linRoot' = TRUE
  /\ entriesByDate' = m.entriesByDate
  /\ years' = m.years
  /\ currentYear' = IF linRoot THEN currentYear ELSE initialYear(m.years, thisYear)

\* LinearView.updateLinearCalendar over the data and properties of the next state
updateLinearCalendar_KeepsOld ==
  IF data' = NULL \/ linStartDateProp' = NoProp
  THEN /\ linRoot' = FALSE
       /\ entriesByDate' = << >>
       /\ years' = << >>
       /\ currentYear' = NULL
       /\ UNCHANGED linEntries
  ELSE /\ linEntries' = linEntries
                          \o extractEntries(data'.data, 1, linStartDateProp', linEndDateProp')
       /\ renderReactLinearCalendar

updateLinearCalendar ==
  IF data' = NULL \/ linStartDateProp' = NoProp
  THEN /\ linRoot' = FALSE
       /\ entriesByDate' = << >>
       /\ years' = << >>
       /\ currentYear' = NULL
       /\ UNCHANGED linEntries
  ELSE /\ linEntries' = extractEntries(data'.data, 1, linStartDateProp', linEndDateProp')
       /\ renderReactLinearCalendar

\* the host notifies after one change: of the notes, or of one field of the
\* configuration
OneChange(records, config) ==
  LET now == [startDate |-> linStartDateProp, endDate |-> linEndDateProp, order |-> linOrder]
      edits == {f \in {"startDate", "endDate", "order"} : config[f] # now[f]}
  IN  IF data = NULL \/ edits = {} THEN edits = {}
      ELSE Cardinality(edits) = 1 /\ records = data.data

\* LinearView.onDataUpdated: the host has set this.data and this.config
LinearDataUpdated(texts, configs) ==
  \E records \in NextRecords(IF data = NULL THEN << >> ELSE data.data, texts),
     config \in configs :
    /\ OneChange(records, config)
    /\ data' = [data |-> records]
    /\ linStartDateProp' = config.startDate
    /\ linEndDateProp' = config.endDate
    /\ linOrder' = config.order
    /\ linOptions' = linLoadConfig(configValues)
    /\ updateLinearCalendar
    /\ UNCHANGED <<thisYear, yearGrid, calVars, configValues, calOptions, imgVars, effVars>>

\* the notifications over the notes and configurations of the year view
LinearOnDataUpdated == LinearDataUpdated(LinTexts, LinConfigs)

\* LinearView.onResize
LinearOnResize ==
  /\ UNCHANGED <<thisYear, yearGrid, data, linStartDateProp, linEndDateProp, linOrder, calVars,
                 optVars, imgVars, effVars>>
  /\ updateLinearCalendar

indexOf(seq, x) ==
  IF includes(seq, x) THEN CHOOSE i \in 1..Len(seq) : seq[i] = x /\ \A j \in 1..(i - 1) : seq[j] # x
  ELSE 0

\* goPrevYear: the year it shows next (indexOf is 1-based here, 0 when absent)
prevYear(yearSeq, year) ==
  LET idx == indexOf(yearSeq, year) IN
  IF idx > 1 THEN yearSeq[idx - 1] ELSE year

\* goNextYear: the year it shows next
nextYear(yearSeq, year) ==
  LET idx == indexOf(yearSeq, year) IN
  IF idx # 0 /\ idx < Len(yearSeq) THEN yearSeq[idx + 1] ELSE year

\* the toolbar: disabled of the two buttons
prevDisabled(yearSeq, year) == indexOf(yearSeq, year) <= 1
nextDisabled(yearSeq, year) ==
  indexOf(yearSeq, year) = 0 \/ indexOf(yearSeq, year) = Len(yearSeq)

\* a click on the previous-year button, which is not disabled
goPrevYear ==
  /\ linRoot
  /\ ~prevDisabled(years, currentYear)
  /\ currentYear' = prevYear(years, currentYear)
  /\ UNCHANGED <<thisYear, yearGrid, data, linStartDateProp, linEndDateProp, linOrder, linEntries,
                 linRoot, entriesByDate, years, calVars, optVars, imgVars, effVars>>

\* a click on the next-year button, which is not disabled
goNextYear ==
  /\ linRoot
  /\ ~nextDisabled(years, currentYear)
  /\ currentYear' = nextYear(years, currentYear)
  /\ UNCHANGED <<thisYear, yearGrid, data, linStartDateProp, linEndDateProp, linOrder, linEntries,
                 linRoot, entriesByDate, years, calVars, optVars, imgVars, effVars>>

(***************************************************************************)
(* The state after construction, and the linear view's specification.      *)
(***************************************************************************)
\* CalendarView as constructed, over an empty vault
InitCalendarView ==
  /\ calData = NULL
  /\ calStartDateProp = NoProp
  /\ calEndDateProp = NoProp
  /\ calEntries = << >>
  /\ calRoot = FALSE
  /\ events = << >>
  /\ editable = FALSE
  /\ drop = NULL

\* LinearView as constructed
\* the host's configuration sets no display option, and no image was asked for
\* no effect has run, no frame is requested, the container has no layout variable
InitEffect ==
  /\ effectDeps = NULL
  /\ effects = << >>
  /\ frames = {}
  /\ handles = 0
  /\ layoutVars = NULL

InitHost ==
  /\ InitEffect
  /\ configValues = NoValues
  /\ calOptions = calConstructed
  /\ linOptions = linConstructed
  /\ imageCase = NULL
  /\ entryImage = NULL

InitLinearView ==
  /\ data = NULL
  /\ linStartDateProp = NoProp
  /\ linEndDateProp = NoProp
  /\ linOrder = << >>
  /\ linEntries = << >>
  /\ linRoot = FALSE
  /\ entriesByDate = << >>
  /\ years = << >>
  /\ currentYear = NULL
  /\ yearGrid = NULL

Init ==
  /\ thisYear \in ClockYears
  /\ InitLinearView
  /\ InitCalendarView
  /\ InitHost
  /\ vault = << >>

NextLinear ==
  \/ LinearOnDataUpdated
  \/ LinearOnResize
  \/ goPrevYear
  \/ goNextYear

SpecLinear == Init /\ [][NextLinear]_vars

(***************************************************************************)
(* The day-map projection on its own: the component is handed any list of  *)
(* entries (the entries prop) and renders.                                 *)
(***************************************************************************)
MemoStarts == {Date(2023, 11, 30, 0), Date(2024, 1, 28, 1), Date(2025, 2, 30, 0),
               Date(2025, 3, 29, 1)}
MemoEnds == {NULL, Date(2023, 11, 30, 0), Date(2024, 0, 2, 0), Date(2024, 1, 28, 0),
             Date(2024, 2, 1, 0), Date(2025, 3, 2, 1), Date(2025, 4, 1, 0)}

MemoShapes ==
  {p \in MemoStarts \X MemoEnds :
     p[2] # NULL => /\ DayNumber(p[2]) - DayNumber(p[1]) <= MaxSpan
                    /\ DayNumber(p[1]) - DayNumber(p[2]) <= MaxSpan}

EntryLists(n) ==
  UNION {[1..k -> MemoShapes] : k \in 0..n}

AsEntries(shapes) ==
  [i \in 1..Len(shapes) |->
     [entry |-> i, startDate |-> shapes[i][1], endDate |-> shapes[i][2]]]

InitMemo ==
  /\ thisYear \in ClockYears
  /\ data = NULL
  /\ linStartDateProp = NoteStart
  /\ linEndDateProp = NoteEnd
  /\ linOrder = << >>
  /\ linEntries \in {AsEntries(l) : l \in EntryLists(MaxRecords)}
  /\ linRoot = FALSE
  /\ entriesByDate = << >>
  /\ years = << >>
  /\ currentYear = NULL
  /\ yearGrid = NULL
  /\ InitCalendarView
  /\ InitHost
  /\ vault = << >>

\* the render of the component over the entries it was handed
MemoRender ==
  /\ ~linRoot
  /\ UNCHANGED <<thisYear, yearGrid, data, linStartDateProp, linEndDateProp, linOrder, linEntries, calVars,
                 optVars, imgVars, effVars>>
  /\ renderReactLinearCalendar

NextMemo == MemoRender

SpecMemo == InitMemo /\ [][NextMemo]_vars

(***************************************************************************)
(* The civil calendar, counted independently of the code's date arithmetic.  *)
(***************************************************************************)
\* the civil date with a day number: the last year, then the last month, that
\* begins on or before it
DayOfNumber(n) ==
  LET y == CHOOSE yy \in 2020..2030 :
             DayNumber(Date(yy, 0, 1, 0)) <= n /\ n < DayNumber(Date(yy + 1, 0, 1, 0))
      m == CHOOSE mm \in 0..11 :
             /\ DayNumber(Date(y, mm, 1, 0)) <= n
             /\ \A m2 \in (mm + 1)..11 : n < DayNumber(Date(y, m2, 1, 0))
  IN  Date(y, m, n - DayNumber(Date(y, m, 1, 0)) + 1, 0)

\* the day-map key of the calendar day with a day number
KeyOfNumber(n) == IsoText(DayOfNumber(n))

\* how often an entry occurs in a bucket
Occurrences(bucket, e) == Cardinality({i \in 1..Len(bucket) : bucket[i] = e})

\* the buckets of the day-map that hold an entry
BucketsOf(e) == {k \in DOMAIN entriesByDate : Occurrences(entriesByDate[k], e) > 0}

\* first and last day number of an entry, date-only, an absent end being the start
FirstDay(e) == DayNumber(e.startDate)
LastDay(e) == IF e.endDate = NULL THEN DayNumber(e.startDate) ELSE DayNumber(e.endDate)

(***************************************************************************)
(* CalendarReactView: the events handed to the widget, and the widget.     *)
(***************************************************************************)
\* the event of an entry with the end a day later whenever there is one
eventOf_AlwaysNextDay(calEntry) ==
  [id |-> calEntry.entry, start |-> calEntry.startDate,
   end |-> IF calEntry.endDate # NULL
           THEN setDate(CopyDate(calEntry.endDate), calEntry.endDate.d + 1) ELSE NULL,
   allDay |-> TRUE,
   extendedProps |-> [entry |-> calEntry.entry, originalEndDate |-> calEntry.endDate]]

\* events = entries.map(...): the event of one entry
eventOf(calEntry) ==
  LET adjustedEndDate ==
        IF calEntry.endDate # NULL
        THEN LET startDateOnly == NewDate(calEntry.startDate.y, calEntry.startDate.m,
                                          calEntry.startDate.d)
                 endDateOnly == NewDate(calEntry.endDate.y, calEntry.endDate.m,
                                        calEntry.endDate.d)
             IN  IF startDateOnly = endDateOnly THEN NULL
                 ELSE setDate(CopyDate(calEntry.endDate), calEntry.endDate.d + 1)
        ELSE calEntry.endDate
  IN  [id |-> calEntry.entry, start |-> calEntry.startDate, end |-> adjustedEndDate,
       allDay |-> TRUE,
       extendedProps |-> [entry |-> calEntry.entry, originalEndDate |-> calEntry.endDate]]

\* the widget keeps an all-day event by its days: start and end at the start
\* of their day, and no end unless it is after the start
startOfDay(date) == Date(date.y, date.m, date.d, 0)

widgetEvent(event) ==
  LET s == startOfDay(event.start)
      e == IF event.end = NULL THEN NULL ELSE startOfDay(event.end)
  IN  [start |-> s,
       end |-> IF e # NULL /\ DayNumber(s) < DayNumber(e) THEN e ELSE NULL,
       extendedProps |-> event.extendedProps]

\* the day k days after a date, as the widget moves an event
AddDays(date, k) == DayOfNumber(DayNumber(date) + k)

\* handleEventDrop passing the end as the widget reports it
handleEventDrop_KeepExclusiveEnd(onEventDrop, entry, originalEndDate, newStart, newEnd) ==
  IF ~onEventDrop \/ newStart = NULL THEN [revert |-> TRUE, call |-> NULL]
  ELSE [revert |-> FALSE,
        call |-> [entry |-> entry, newStart |-> newStart,
                  newEnd |-> IF originalEndDate # NULL
                             THEN (IF newEnd # NULL THEN CopyDate(newEnd) ELSE CopyDate(newStart))
                             ELSE NULL]]

\* handleEventDrop passing an end only when the widget reports one
handleEventDrop_EndOnlyWhenReported(onEventDrop, entry, originalEndDate, newStart, newEnd) ==
  IF ~onEventDrop \/ newStart = NULL THEN [revert |-> TRUE, call |-> NULL]
  ELSE [revert |-> FALSE,
        call |-> [entry |-> entry, newStart |-> newStart,
                  newEnd |-> IF originalEndDate # NULL /\ newEnd # NULL
                             THEN setDate(CopyDate(newEnd), newEnd.d - 1)
                             ELSE NULL]]

\* handleEventDrop up to the await: revert at once, or call onEventDrop
handleEventDrop(onEventDrop, entry, originalEndDate, newStart, newEnd) ==
  IF ~onEventDrop THEN [revert |-> TRUE, call |-> NULL]
  ELSE IF newStart = NULL THEN [revert |-> TRUE, call |-> NULL]
  ELSE LET actualEndDate ==
             IF originalEndDate # NULL
             THEN IF newEnd # NULL
                  THEN setDate(CopyDate(newEnd), newEnd.d - 1)
                  ELSE CopyDate(newStart)
             ELSE NULL
       IN  [revert |-> FALSE,
            call |-> [entry |-> entry, newStart |-> newStart, newEnd |-> actualEndDate]]

\* handleEventDrop without the catch
handleEventDropSettled_NoCatch(outcome) ==
  [revert |-> FALSE, thrown |-> outcome = "rejected"]

\* handleEventDrop after the await: try { await onEventDrop(...) } catch { revert }
handleEventDropSettled(outcome) ==
  [revert |-> outcome = "rejected", thrown |-> FALSE]

(***************************************************************************)
(* CalendarView: editability and the persistence of a drop.                 *)
(***************************************************************************)
NoteType == <<"n", "o", "t", "e">>

\* obsidian parsePropertyId: "<type>.<name>" split at the first dot
parsePropertyId(id) ==
  LET dots == {i \in 1..Len(id) : id[i] = "."}
      dot == IF dots = {} THEN Len(id) + 1 ELSE CHOOSE i \in dots : \A j \in dots : i <= j
  IN  [type |-> SubSeq(id, 1, dot - 1), name |-> SubSeq(id, dot + 1, Len(id))]

\* isEditable looking at the start property alone
isEditable_StartOnly(startDateProp, endDateProp) ==
  IF startDateProp = NoProp THEN FALSE
  ELSE parsePropertyId(startDateProp).type = NoteType

\* CalendarView.isEditable
isEditable(startDateProp, endDateProp) ==
  IF startDateProp = NoProp THEN FALSE
  ELSE IF parsePropertyId(startDateProp).type # NoteType THEN FALSE
  ELSE IF endDateProp = NoProp THEN TRUE
  ELSE IF parsePropertyId(endDateProp).type # NoteType THEN FALSE
  ELSE TRUE

\* formatDate with getMonth() as it is, 0-based
formatDate_ZeroBasedMonth(date) ==
  StringOf(date.y) \o <<"-">> \o padStart2(StringOf(date.m))
                   \o <<"-">> \o padStart2(StringOf(date.d))

\* formatDate inside the front-matter mutator
formatDate(date) ==
  LET year == StringOf(date.y)
      month == padStart2(StringOf(date.m + 1))
      day == padStart2(StringOf(date.d))
  IN  year \o <<"-">> \o month \o <<"-">> \o day

\* CalendarView.updateEntryDates up to the await: NULL when it returns without
\* an update, else the processFrontMatter call it makes
updateEntryDates(startDateProp, endDateProp, entry, newStart, newEnd) ==
  IF startDateProp = NoProp THEN NULL
  ELSE LET startPropName == startDateProp
           endPropName == endDateProp
           extractedStartProp == IF startsWith(startPropName, NotePrefix)
                                 THEN [v |-> slice(startPropName, 5)] ELSE NULL
           extractedEndProp == IF endPropName # NoProp /\ startsWith(endPropName, NotePrefix)
                               THEN [v |-> slice(endPropName, 5)] ELSE NULL
           shouldUpdate == /\ extractedStartProp # NULL
                           /\ (endDateProp = NoProp \/ extractedEndProp # NULL)
       IN  IF ~shouldUpdate THEN NULL
           ELSE [file |-> entry,
                 extractedStartProp |-> extractedStartProp,
                 extractedEndProp |-> extractedEndProp,
                 newStart |-> newStart, newEnd |-> newEnd]

\* the mutator writing the end whenever a new end is supplied
frontMatterWrites_EndAlways(update, endDateProp) ==
  <<[key |-> update.extractedStartProp.v, value |-> formatDate(update.newStart)]>>
    \o (IF update.newEnd # NULL
        THEN <<[key |-> slice(NoteEnd, 5), value |-> formatDate(update.newEnd)]>>
        ELSE << >>)

\* the mutator handed to processFrontMatter: its assignments, in order, with
\* this.endDateProp as it is when the mutator runs
frontMatterWrites(update, endDateProp) ==
  <<[key |-> update.extractedStartProp.v, value |-> formatDate(update.newStart)]>>
    \o (IF /\ endDateProp # NoProp
           /\ update.newEnd # NULL
           /\ update.extractedEndProp # NULL
           /\ update.extractedEndProp.v # << >>
        THEN <<[key |-> update.extractedEndProp.v, value |-> formatDate(update.newEnd)]>>
        ELSE << >>)

\* the front matter after the assignments
ApplyWrites(fm, writes) ==
  [k \in DOMAIN fm \cup {writes[i].key : i \in 1..Len(writes)} |->
     IF \E i \in 1..Len(writes) : writes[i].key = k
     THEN writes[CHOOSE i \in 1..Len(writes) :
                   writes[i].key = k /\ \A j \in (i + 1)..Len(writes) : writes[j].key # k].value
     ELSE fm[k]]

(***************************************************************************)
(* The month view over a vault of two notes.                                *)
(***************************************************************************)
\* the first note has no date; the texts of the second: no end, an end on the
\* start's day, an end on the next day, an end before the start
FirstTexts == {<<NotADate, << >> >>}

SecondTexts ==
  {<<IsoText(Date(2024, 1, 27, 1)), << >> >>,
   <<IsoText(Date(2024, 1, 27, 1)), IsoText(Date(2024, 1, 27, 0))>>,
   <<IsoText(Date(2024, 1, 27, 0)), IsoText(Date(2024, 1, 28, 1))>>,
   <<IsoText(Date(2024, 1, 27, 0)), IsoText(Date(2024, 1, 26, 0))>>}

\* the days an event is dropped on
DropTargets == {Date(2024, 1, 28, 0), Date(2024, 11, 30, 0)}

MonthConfigs ==
  [startDate : {NoProp, NoteStart, FileCtime}, endDate : {NoProp, NoteEnd, FileCtime}]

\* the configurations the user reaches with at most one edit
NextConfigs ==
  {c \in MonthConfigs : c.startDate = calStartDateProp \/ c.endDate = calEndDateProp}

\* renderReactCalendar keeping the editable flag of the mounted component
renderReactCalendar_CachedEditable ==
  /\ calRoot' = TRUE
  /\ events' = [i \in 1..Len(calEntries') |-> eventOf(calEntries'[i])]
  /\ editable' = IF calRoot THEN editable
                 ELSE isEditable(calStartDateProp', calEndDateProp')

\* CalendarView.renderReactCalendar with the entries and properties of the
\* next state; the component maps the entries to events as it renders
renderReactCalendar ==
  /\ calRoot' = TRUE
  /\ events' = [i \in 1..Len(calEntries') |-> eventOf(calEntries'[i])]
  /\ editable' = isEditable(calStartDateProp', calEndDateProp')

\* CalendarView.updateCalendar over the data and properties of the next state
updateCalendar ==
  IF calData' = NULL \/ calStartDateProp' = NoProp
  THEN /\ calRoot' = FALSE
       /\ events' = << >>
       /\ editable' = FALSE
       /\ UNCHANGED calEntries
  ELSE /\ calEntries' = extractEntries(calData'.data, 1, calStartDateProp', calEndDateProp')
       /\ renderReactCalendar

\* CalendarView.onDataUpdated: the host has set this.data to the notes as they
\* are now and this.config to the user's configuration
CalendarOnDataUpdated ==
  \E config \in NextConfigs :
    /\ calData' = [data |-> vault]
    /\ calStartDateProp' = config.startDate
    /\ calEndDateProp' = config.endDate
    /\ calOptions' = calLoadConfig(configValues)
    /\ updateCalendar
    /\ UNCHANGED <<vault, drop, linVars, configValues, linOptions, imgVars, effVars>>

\* CalendarView.onResize
CalendarOnResize ==
  /\ calData # NULL
  /\ UNCHANGED <<calData, calStartDateProp, calEndDateProp, vault, drop, linVars, optVars, imgVars, effVars>>
  /\ updateCalendar

\* handleEventDrop is at its await
DropPending == IF drop = NULL THEN FALSE ELSE drop.phase = "pending"

\* the user drops event i on a day: the widget reports the new start and, for
\* an event with an end, the end moved by as many days; handleEventDrop runs
\* to its await, and with it updateEntryDates to its own
EventDrop ==
  \E i \in 1..Len(events), target \in DropTargets :
    LET shown == widgetEvent(events[i])
        newStart == target
        newEnd == IF shown.end = NULL THEN NULL
                  ELSE AddDays(target, DayNumber(shown.end) - DayNumber(shown.start))
        entry == events[i].extendedProps.entry
        originalEndDate == events[i].extendedProps.originalEndDate
        handled == handleEventDrop(TRUE, entry, originalEndDate, newStart, newEnd)
        update == IF handled.call = NULL THEN NULL
                  ELSE updateEntryDates(calStartDateProp, calEndDateProp, handled.call.entry,
                                        handled.call.newStart, handled.call.newEnd)
        settled == handleEventDropSettled("resolved")
    IN  /\ calRoot /\ editable
        /\ ~DropPending
        /\ target # shown.start
        /\ shown.end # NULL => DayNumber(shown.end) - DayNumber(shown.start) <= MaxSpan
        /\ drop' = [entry |-> entry, originalEndDate |-> originalEndDate,
                    shownStart |-> shown.start,
                    newStart |-> newStart, newEnd |-> newEnd,
                    call |-> handled.call, calls |-> IF handled.call = NULL THEN 0 ELSE 1,
                    update |-> update,
                    phase |-> IF update = NULL THEN "done" ELSE "pending",
                    outcome |-> IF handled.call = NULL THEN "none"
                                ELSE IF update = NULL THEN "resolved" ELSE "none",
                    writes |-> << >>, mutatedWith |-> NoProp,
                    revert |-> IF handled.call = NULL THEN handled.revert
                               ELSE IF update = NULL THEN settled.revert ELSE FALSE,
                    thrown |-> IF handled.call # NULL /\ update = NULL
                               THEN settled.thrown ELSE FALSE]
        /\ UNCHANGED <<vault, calData, calStartDateProp, calEndDateProp, calEntries,
                       calRoot, events, editable, linVars, optVars, imgVars, effVars>>

\* the host runs the mutator on the note's front matter and saves it; the
\* promise resolves and handleEventDrop returns
ProcessFrontMatterResolves_RefreshesEntries ==
  /\ DropPending
  /\ LET writes == frontMatterWrites(drop.update, calEndDateProp)
         settled == handleEventDropSettled("resolved")
     IN  /\ vault' = [n \in 1..Len(vault) |->
                        IF vault[n].file = drop.update.file
                        THEN [vault[n] EXCEPT !.fm = ApplyWrites(@, writes)]
                        ELSE vault[n]]
         /\ drop' = [drop EXCEPT !.phase = "done", !.outcome = "resolved",
                                 !.writes = writes, !.mutatedWith = calEndDateProp,
                                 !.revert = settled.revert, !.thrown = settled.thrown]
  /\ calEntries' = extractEntries(vault', 1, calStartDateProp, calEndDateProp)
  /\ UNCHANGED <<calData, calStartDateProp, calEndDateProp,
                 calRoot, events, editable, linVars, optVars, imgVars, effVars>>

\* the host runs the mutator on the note's front matter and saves it; the
\* promise resolves and handleEventDrop returns
ProcessFrontMatterResolves ==
  /\ DropPending
  /\ LET writes == frontMatterWrites(drop.update, calEndDateProp)
         settled == handleEventDropSettled("resolved")
     IN  /\ vault' = [n \in 1..Len(vault) |->
                        IF vault[n].file = drop.update.file
                        THEN [vault[n] EXCEPT !.fm = ApplyWrites(@, writes)]
                        ELSE vault[n]]
         /\ drop' = [drop EXCEPT !.phase = "done", !.outcome = "resolved",
                                 !.writes = writes, !.mutatedWith = calEndDateProp,
                                 !.revert = settled.revert, !.thrown = settled.thrown]
  /\ UNCHANGED <<calData, calStartDateProp, calEndDateProp, calEntries,
                 calRoot, events, editable, linVars, optVars, imgVars, effVars>>

\* the host fails to process the front matter: the promise rejects and
\* handleEventDrop catches
ProcessFrontMatterRejects ==
  /\ DropPending
  /\ LET settled == handleEventDropSettled("rejected")
     IN  drop' = [drop EXCEPT !.phase = "done", !.outcome = "rejected",
                              !.revert = settled.revert, !.thrown = settled.thrown]
  /\ UNCHANGED <<vault, calData, calStartDateProp, calEndDateProp, calEntries,
                 calRoot, events, editable, linVars, optVars, imgVars, effVars>>

InitMonth ==
  /\ thisYear = 2024
  /\ InitLinearView
  /\ InitCalendarView
  /\ InitHost
  /\ \E first \in FirstTexts, second \in SecondTexts :
       vault = <<Record(1, first[1], first[2]), Record(2, second[1], second[2])>>

NextMonth ==
  \/ CalendarOnDataUpdated
  \/ CalendarOnResize
  \/ EventDrop
  \/ ProcessFrontMatterResolves
  \/ ProcessFrontMatterRejects

SpecMonth == InitMonth /\ [][NextMonth]_vars

(***************************************************************************)
(* LinearReactView: a day cell.                                            *)
(***************************************************************************)
\* the record of an entry among the host's records
RecordOf(records, file) == records[CHOOSE i \in 1..Len(records) : records[i].file = file]

\* tryGetValue, then hasNonEmptyValue: the value is there and shows a text
hasNonEmptyValue(value) == value # NULL

\* the properties of the order that have a value to show for the record
RECURSIVE validPropertiesOf(_, _, _)
validPropertiesOf(rec, properties, i) ==
  IF i > Len(properties) THEN << >>
  ELSE (IF hasNonEmptyValue(getValue(rec, properties[i]))
        THEN <<properties[i]>> ELSE << >>)
       \o validPropertiesOf(rec, properties, i + 1)

\* new Date(year, month, day).getDay(): 0 is Sunday
MonthOffsets == <<0, 3, 2, 5, 0, 3, 5, 1, 4, 6, 2, 4>>

\* getDay counting from Monday
getDay_MondayFirst(year, month, day) ==
  LET y == IF month < 2 THEN year - 1 ELSE year
  IN  (y + (y \div 4) - (y \div 100) + (y \div 400) + MonthOffsets[month + 1] + day + 6) % 7

\* new Date(year, month, day).getDay()
getDay(year, month, day) ==
  LET y == IF month < 2 THEN year - 1 ELSE year
  IN  (y + (y \div 4) - (y \div 100) + (y \div 400) + MonthOffsets[month + 1] + day) % 7

\* renderCell: what the cell of a day shows; more is the N of the "+N more"
\* chip, weekend is whether the cell carries the class is-weekend
renderCell(map, properties, records, year, month, day, valid, highlightWeekends, alignWeekdays) ==
  LET key == dateKey(year, month, day)
      dayEntries == IF valid /\ key \in DOMAIN map THEN map[key] ELSE << >>
      primary == IF dayEntries # << >> THEN dayEntries[1] ELSE NULL
      hasMultiple == Len(dayEntries) > 1
      isWeekend == IF highlightWeekends /\ ~alignWeekdays /\ valid
                   THEN LET dow == getDay(year, month, day)
                        IN  dow = 0 \/ dow = 6
                   ELSE FALSE
  IN  IF ~valid THEN [kind |-> "out-of-month"]
      ELSE IF primary = NULL THEN [kind |-> "day", day |-> day]
      ELSE LET entry == primary.entry
               validProperties == validPropertiesOf(RecordOf(records, entry), properties, 1)
               hasProperties == Len(validProperties) > 0
           IN  [kind |-> "entry", day |-> day, click |-> primary.entry,
                weekend |-> isWeekend,
                chips |-> validProperties,
                more |-> IF hasProperties /\ hasMultiple
                         THEN [v |-> Len(dayEntries) - 1] ELSE NULL]

(***************************************************************************)
(* LinearReactView: the weekday-aligned year.                              *)
(***************************************************************************)
\* Math.ceil(n / 7) * 7
ceil7(n) == ((n + 6) \div 7) * 7

\* the slots of a month with Math.floor where the code has Math.ceil
monthSlot_Floor(year, monthIndex) ==
  LET days == daysInMonth(year, monthIndex)
      firstWeekday == getDay(year, monthIndex, 1)
  IN  [days |-> days, firstWeekday |-> firstWeekday,
       totalSlots |-> ((firstWeekday + days) \div 7) * 7]

\* renderAlignedYear: one element of monthSlots
monthSlot(year, monthIndex) ==
  LET days == daysInMonth(year, monthIndex)
      firstWeekday == getDay(year, monthIndex, 1)
      totalSlots == ceil7(firstWeekday + days)
  IN  [days |-> days, firstWeekday |-> firstWeekday, totalSlots |-> totalSlots]

WeekdayNames == <<"Su", "Mo", "Tu", "We", "Th", "Fr", "Sa">>

\* renderAlignedYear: the weekday header and the twelve month rows; a slot
\* past the month's own slots is padding, the others are day cells
renderAlignedYear(map, properties, records, year, highlightWeekends, alignWeekdays) ==
  LET monthSlots == [mi \in 1..12 |-> monthSlot(year, mi - 1)]
      maxSlots == Max(0, SetMaxOf({monthSlots[mi].totalSlots : mi \in 1..12}))
  IN  [weekdays |-> [i \in 1..maxSlots |-> WeekdayNames[((i - 1) % 7) + 1]],
       rows |-> [mi \in 1..12 |->
                   LET meta == monthSlots[mi] IN
                   [idx \in 1..maxSlots |->
                      IF idx - 1 >= meta.totalSlots THEN [kind |-> "pad"]
                      ELSE LET dayNum == (idx - 1) - meta.firstWeekday + 1
                               valid == dayNum >= 1 /\ dayNum <= meta.days
                           IN  renderCell(map, properties, records, year, mi - 1, dayNum, valid,
                                          highlightWeekends, alignWeekdays)]]]

\* years the aligned layout is made for
LayoutYears == 2001..2099

InitLayout ==
  /\ thisYear = 2024
  /\ InitLinearView
  /\ InitCalendarView
  /\ InitHost
  /\ vault = << >>

\* a day-map with one record on the first and on the last day of every month
EdgeDaysMap(year) ==
  [key \in {dateKey(year, month, 1) : month \in 0..11}
             \cup {dateKey(year, month, daysInMonth(year, month)) : month \in 0..11} |->
     <<[entry |-> 1, startDate |-> Date(year, 0, 1, 0), endDate |-> Date(year, 11, 31, 0)]>>]

\* the component shows a year of the list, weekday-aligned
RenderAlignedYear ==
  \E year \in LayoutYears :
    /\ yearGrid' = [year |-> year,
                    grid |-> renderAlignedYear(EdgeDaysMap(year), << >>,
                                               <<Record(1, IsoText(Date(year, 0, 1, 0)),
                                                        IsoText(Date(year, 11, 31, 0)))>>,
                                               year, linOptions.highlightWeekends, TRUE)]
    /\ UNCHANGED <<thisYear, data, linStartDateProp, linEndDateProp, linOrder, linEntries,
                   linRoot, entriesByDate, years, currentYear, calVars, optVars, imgVars, effVars>>

NextLayout == RenderAlignedYear

SpecLayout == InitLayout /\ [][NextLayout]_vars

(***************************************************************************)
(* The linear view over records whose properties are absent, not dates,    *)
(* dates without a day, or fail to evaluate.                               *)
(***************************************************************************)
\* the days the notes name
ExtractDays == <<Date(2024, 1, 27, 0), Date(2024, 1, 27, 1), Date(2024, 2, 1, 0)>>

\* the start and end texts of the notes: a day; a text shaped as a date that
\* names no day; a start that is no date with an end; a timed start with an
\* end that names no day
ExtractTexts ==
  << <<IsoText(ExtractDays[1]), << >> >>,
     <<<<"2", "0", "2", "4", "-", "1", "3", "-", "4", "5">>, << >> >>,
     <<NotADate, IsoText(ExtractDays[3])>>,
     <<IsoText(ExtractDays[2]), <<"2", "0", "2", "4", "-", "0", "0", "-", "1", "0">> >> >>

ExtractConfigs ==
  [startDate : {NoProp, NoteStart, NoteEnd, FileCtime, FormulaBroken},
   endDate : {NoProp, NoteEnd, FormulaBroken},
   order : {<< >>}]

ExtractOnDataUpdated == LinearDataUpdated(ExtractTexts, ExtractConfigs)

NextExtract ==
  \/ ExtractOnDataUpdated
  \/ LinearOnResize

SpecExtract == Init /\ [][NextExtract]_vars

(***************************************************************************)
(* The display options over the values a configuration may hold.           *)
(***************************************************************************)
\* texts a configuration may hold for an option
RawTexts ==
  { << >>, <<" ">>, <<"7", "0">>, <<" ", "7", "0", " ">>, <<"-", "5">>,
    <<"1", "5", "0">>, <<"a", "b", "c">>, <<"7", "a">>, <<"t", "r", "u", "e">>,
    <<"m", "o", "n", "d", "a", "y">>, <<"s", "u", "n", "d", "a", "y">>,
    <<"v", "a", "l", "u", "e", "O", "f">> }

\* numbers a configuration may hold for an option
RawNumbers == {Num(n) : n \in {0 - 5, 0, 13, 70, 100, 150, 300}} \cup {NaN}

\* values a configuration may hold for an option
RawValues ==
  {Undefined, Null, Object, Boolean(TRUE), Boolean(FALSE)}
    \cup {NumberValue(num) : num \in RawNumbers}
    \cup {String(s) : s \in RawTexts}

\* values a second option holds at the same time
OtherValues ==
  {NumberValue(Num(70)), String(<<"a", "b", "c">>), String(<< >>), Boolean(TRUE)}

\* configurations: at most two options set, the others missing
Configs ==
  {[k \in OptionKeys |-> IF k = k1 THEN v1 ELSE IF k = k2 THEN v2 ELSE Undefined] :
     k1 \in OptionKeys, k2 \in OptionKeys, v1 \in RawValues, v2 \in OtherValues}

InitConfig ==
  /\ thisYear = 2024
  /\ InitEffect
  /\ InitLinearView
  /\ InitCalendarView
  /\ vault = << >>
  /\ configValues \in Configs
  /\ calOptions = calConstructed
  /\ linOptions = linConstructed
  /\ imageCase = NULL
  /\ entryImage = NULL

\* CalendarView.loadConfig, the display options
CalendarLoadConfig ==
  /\ calOptions' = calLoadConfig(configValues)
  /\ UNCHANGED <<linVars, vault, calData, calStartDateProp, calEndDateProp, calEntries,
                 calRoot, events, editable, drop, configValues, linOptions, imgVars, effVars>>

\* LinearView.loadConfig, the display options
LinearLoadConfig ==
  /\ linOptions' = linLoadConfig(configValues)
  /\ UNCHANGED <<linVars, calVars, configValues, calOptions, imgVars, effVars>>

NextConfig ==
  \/ CalendarLoadConfig
  \/ LinearLoadConfig

SpecConfig == InitConfig /\ [][NextConfig]_vars

(***************************************************************************)
(* Entry images over a vault of three files.                               *)
(***************************************************************************)
PhotoPng == TFile(<<"p", "h", "o", "t", "o">>, <<"p", "n", "g">>)
UpperPng == TFile(<<"B">>, <<"P", "N", "G">>)
NoteMd == TFile(<<"n", "o", "t", "e">>, <<"m", "d">>)

ImageFiles == {PhotoPng, UpperPng, NoteMd}

\* references as notes hold them
WikiPhoto == <<"[", "[", "p", "h", "o", "t", "o", ".", "p", "n", "g", "]", "]">>
ExternalUrl == <<"h", "t", "t", "p", "s", ":", "/", "/", "x", "/", "y", ".", "j", "p", "g">>
WikiNote == <<"[", "[", "n", "o", "t", "e", "]", "]">>
WikiGone == <<"[", "[", "g", "o", "n", "e", ".", "p", "n", "g", "]", "]">>
MdPhoto == <<"!", "[", "a", "]", "(", "p", "h", "o", "t", "o", ".", "p", "n", "g", ")">>
QuotedPhoto == <<"'", "p", "h", "o", "t", "o", ".", "p", "n", "g", "'">>
AliasedUpper == <<"[", "[", "B", ".", "P", "N", "G", "|", "2", "0", "0", "]", "]">>
Blank == <<" ">>

\* values the image property may have for the entry; NULL for none
PropertyValues ==
  << NULL, Text(WikiGone), Text(ExternalUrl), List(<<Text(Blank), Text(AliasedUpper)>>),
     FileValue(PhotoPng.path), Members(<< <<"url", QuotedPhoto>> >>) >>

\* values a front-matter key of the note may have
FirstKeyValues ==
  { Missing, Text(<< >>), Text(WikiGone), Text(ExternalUrl),
    List(<<Text(WikiPhoto), Text(ExternalUrl)>>),
    List(<<Text(ExternalUrl), Text(WikiPhoto)>>),
    List(<<Text(WikiNote), Members(<< <<"file", MdPhoto>> >>)>>) }

SecondKeyValues == { Text(AliasedUpper), List(<<Text(WikiNote), Text(WikiGone)>>) }

\* the keys the notes use
UsedKeys == {"cover", "images", "photo"}

KeySet == {IMAGE_FRONTMATTER_KEYS[k] : k \in 1..Len(IMAGE_FRONTMATTER_KEYS)}

\* the front matter of the note: at most two keys set
Frontmatters ==
  {[key \in KeySet |-> IF key = k1 THEN v1 ELSE IF key = k2 THEN v2 ELSE Missing] :
     k1 \in UsedKeys, k2 \in UsedKeys, v1 \in FirstKeyValues, v2 \in SecondKeyValues}

\* the links of the note's embeds
EmbedLists ==
  { << >>, << <<"n", "o", "t", "e">> >>, << <<"n", "o", "t", "e">>, <<"B", ".", "P", "N", "G">>, <<"p", "h", "o", "t", "o", ".", "p", "n", "g">> >>,
    << <<"g", "o", "n", "e", ".", "p", "n", "g">>, ExternalUrl >> }

\* what resolveEntryImage is called with
ImageCases ==
  {[app |-> app, imageProperty |-> imageProperty, value |-> PropertyValues[v],
    cache |-> cache, frontmatter |-> frontmatter, embeds |-> embeds, files |-> ImageFiles] :
     app \in BOOLEAN, imageProperty \in BOOLEAN, v \in 1..Len(PropertyValues),
     cache \in BOOLEAN, frontmatter \in Frontmatters, embeds \in EmbedLists}

InitImage ==
  /\ thisYear = 2024
  /\ InitEffect
  /\ InitLinearView
  /\ InitCalendarView
  /\ vault = << >>
  /\ configValues = NoValues
  /\ calOptions = calConstructed
  /\ linOptions = linConstructed
  /\ imageCase \in ImageCases
  /\ entryImage = NULL

\* a view asks for the image of the entry as it renders it
ResolveEntryImage ==
  /\ entryImage' = [returned |-> resolveEntryImage(imageCase)]
  /\ UNCHANGED <<linVars, calVars, optVars, imageCase, effVars>>

NextImage == ResolveEntryImage

SpecImage == InitImage /\ [][NextImage]_vars

(***************************************************************************)
(* LinearReactView: the layout effect that measures the column width.      *)
(***************************************************************************)
MaxEffects == 3      \* runs of the effect that get past its guard
MaxFrames == 4       \* animation frames requested

\* the closure an effect run makes: its frameId, whether its observer is
\* connected, and whether its cleanup has run
Closure(frameId, observing, torn) ==
  [frameId |-> frameId, observing |-> observing, torn |-> torn]

\* what a closure's operation leaves behind
Left(effs, frs, n) == [effects |-> effs, frames |-> frs, handles |-> n]

\* cancelAnimationFrame
cancelAnimationFrame(frs, handle) == {f \in frs : f.handle # handle}

\* updateVars that leaves the frame it requested before
updateVars_NoCancel(effs, frs, n, e) ==
  Left([effs EXCEPT ![e].frameId = n + 1],
       frs \cup {[handle |-> n + 1, effect |-> e]},
       n + 1)

\* updateVars of closure e: cancel the frame it requested, request another
updateVars(effs, frs, n, e) ==
  LET kept == IF effs[e].frameId # 0 THEN cancelAnimationFrame(frs, effs[e].frameId) ELSE frs
  IN  Left([effs EXCEPT ![e].frameId = n + 1],
           kept \cup {[handle |-> n + 1, effect |-> e]},
           n + 1)

\* the cleanup that disconnects the observer and leaves the frame
cleanup_KeepsFrame(effs, frs, n, e) ==
  Left([effs EXCEPT ![e].observing = FALSE, ![e].torn = TRUE], frs, n)

\* the function the effect returns: cancel the frame, disconnect the observer
cleanup(effs, frs, n, e) ==
  LET kept == IF effs[e].frameId # 0 THEN cancelAnimationFrame(frs, effs[e].frameId) ELSE frs
  IN  Left([effs EXCEPT ![e].observing = FALSE, ![e].torn = TRUE], kept, n)

\* the closures whose cleanup React still holds
Live(effs) == {e \in 1..Len(effs) : ~effs[e].torn}

\* React running the cleanup it holds, if any
RECURSIVE teardown(_, _, _, _)
teardown(effs, frs, n, live) ==
  IF live = {} THEN Left(effs, frs, n)
  ELSE LET e == CHOOSE x \in live : TRUE
           left == cleanup(effs, frs, n, e)
       IN  teardown(left.effects, left.frames, left.handles, live \ {e})

\* the effect's body: nothing without both options, else a closure that
\* calls updateVars once and observes the container
effectBody(effs, frs, n, deps) ==
  IF ~deps.alignWeekdays \/ ~deps.highlightWeekends THEN Left(effs, frs, n)
  ELSE updateVars(Append(effs, Closure(0, TRUE, FALSE)), frs, n, Len(effs) + 1)

\* the dependency lists the component is rendered with
DepsSets ==
  [alignWeekdays : BOOLEAN, highlightWeekends : BOOLEAN,
   currentYear : {2024, 2025}, dayCellHeight : {120}]

\* the first commit of a mount, or a commit whose dependencies differ from
\* the last one's: the cleanup of the last run, then the effect
CommitLayoutEffect ==
  \E deps \in DepsSets :
    /\ effectDeps # [v |-> deps]
    /\ Len(effects) < MaxEffects
    /\ handles < MaxFrames
    /\ LET torn == teardown(effects, frames, handles, Live(effects))
           left == effectBody(torn.effects, torn.frames, torn.handles, deps)
       IN  /\ effects' = left.effects
           /\ frames' = left.frames
           /\ handles' = left.handles
    /\ effectDeps' = [v |-> deps]
    /\ UNCHANGED <<linVars, calVars, optVars, imgVars, layoutVars>>

\* the ResizeObserver of a closure calls updateVars
ResizeObserved ==
  \E e \in 1..Len(effects) :
    /\ effects[e].observing
    /\ handles < MaxFrames
    /\ LET left == updateVars(effects, frames, handles, e)
       IN  /\ effects' = left.effects
           /\ frames' = left.frames
           /\ handles' = left.handles
    /\ UNCHANGED <<linVars, calVars, optVars, imgVars, effectDeps, layoutVars>>

\* a requested frame fires: the callback measures the first day cell and
\* writes the layout variables, or returns when the row or the cell is missing
FrameFires ==
  \E f \in frames : \E found \in BOOLEAN :
    /\ frames' = frames \ {f}
    /\ layoutVars' = IF found THEN [effect |-> f.effect, handle |-> f.handle] ELSE layoutVars
    /\ UNCHANGED <<linVars, calVars, optVars, imgVars, effectDeps, effects, handles>>

\* LinearView.onunload: root.unmount() runs the cleanup React holds
UnmountLinear ==
  /\ effectDeps # NULL
  /\ LET left == teardown(effects, frames, handles, Live(effects))
     IN  /\ effects' = left.effects
         /\ frames' = left.frames
         /\ handles' = left.handles
  /\ effectDeps' = NULL
  /\ UNCHANGED <<linVars, calVars, optVars, imgVars, layoutVars>>

NextMeasure ==
  \/ CommitLayoutEffect
  \/ ResizeObserved
  \/ FrameFires
  \/ UnmountLinear

SpecMeasure == InitLayout /\ [][NextMeasure]_vars

(***************************************************************************)
(* C1.  Day-map projection: every entry whose date-only start is not after *)
(* its date-only end (an absent end counting as the start) is in the       *)
(* bucket of each calendar day from start to end exactly once, and in no   *)
(* other bucket; time of day is ignored and month and year ends are        *)
(* crossed by the calendar.                                                *)
(***************************************************************************)
C1_DayMapProjection ==
  linRoot =>
    \A i \in 1..Len(linEntries) :
      LET e == linEntries[i] IN
      FirstDay(e) <= LastDay(e) =>
        LET keys == {KeyOfNumber(n) : n \in FirstDay(e)..LastDay(e)} IN
        /\ Cardinality(keys) = LastDay(e) - FirstDay(e) + 1
        /\ \A k \in keys :
             k \in DOMAIN entriesByDate /\ Occurrences(entriesByDate[k], e) = 1
        /\ BucketsOf(e) = keys

\* the entry 2025-03-30 .. 2025-04-02 (with a time of day on its end) is rendered
\* under exactly the four keys 2025-03-30, 2025-03-31, 2025-04-01, 2025-04-02
C1_Witness ==
  /\ linRoot
  /\ \E i \in 1..Len(linEntries) :
       /\ linEntries[i].startDate = Date(2025, 2, 30, 0)
       /\ linEntries[i].endDate = Date(2025, 3, 2, 1)
       /\ BucketsOf(linEntries[i]) =
            {<<"2", "0", "2", "5", "-", "0", "3", "-", "3", "0">>,
             <<"2", "0", "2", "5", "-", "0", "3", "-", "3", "1">>,
             <<"2", "0", "2", "5", "-", "0", "4", "-", "0", "1">>,
             <<"2", "0", "2", "5", "-", "0", "4", "-", "0", "2">>}
       /\ Len(linEntries) > 1

(***************************************************************************)
(* C2.  An entry whose end date is before its start date, date-only, is in *)
(* no bucket of the rendered day-map.                                      *)
(***************************************************************************)
C2_ReversedRangeInNoBucket ==
  linRoot =>
       \A i \in 1..Len(linEntries) :
         LastDay(linEntries[i]) < FirstDay(linEntries[i]) => BucketsOf(linEntries[i]) = {}

\* a rendered list that holds a reversed entry beside an entry that is shown
C2_Witness ==
  /\ linRoot
  /\ \E i \in 1..Len(linEntries) : LastDay(linEntries[i]) < FirstDay(linEntries[i])
  /\ \E i \in 1..Len(linEntries) : BucketsOf(linEntries[i]) # {}

(***************************************************************************)
(* C10.  Year range of the linear view.                                    *)
(***************************************************************************)
YearsOf(e) == {e.startDate.y} \cup (IF e.endDate = NULL THEN {} ELSE {e.endDate.y})

SetMin(S) == CHOOSE x \in S : \A y \in S : x <= y
SetMax(S) == CHOOSE x \in S : \A y \in S : x >= y

IsRange(seq, lo, hi) ==
  /\ Len(seq) = hi - lo + 1
  /\ \A j \in 1..Len(seq) : seq[j] = lo + j - 1

\* C10 as stated: the year list is the contiguous range from the least to the
\* greatest year over the start years and end years of the entries
C10_YearRangeOverAllEntries ==
  (linRoot /\ Len(linEntries) > 0) =>
    LET ys == UNION {YearsOf(linEntries[i]) : i \in 1..Len(linEntries)}
    IN  IsRange(years, SetMin(ys), SetMax(ys))

\* C10 as amended: the year list is the contiguous range from the least to the
\* greatest year over the start years and end years of the entries whose
\* date-only end is not before their start; an entry left out of the day-map
\* adds no year, and with no entry in the day-map the list is the current year
C10_YearRangeOverShownEntries ==
  LET shown == {i \in 1..Len(linEntries) : FirstDay(linEntries[i]) <= LastDay(linEntries[i])}
      ys == UNION {YearsOf(linEntries[i]) : i \in shown}
  IN  linRoot => IF shown # {} THEN IsRange(years, SetMin(ys), SetMax(ys))
                 ELSE years = <<thisYear>>

\* entries with only a start date in 2024 and one entry 2023-12-30 .. 2024-01-02
\* give the years 2023 and 2024
C10_Witness ==
  /\ linRoot
  /\ Len(linEntries) = 2
  /\ linEntries[1].startDate.y = 2024 /\ linEntries[1].endDate = NULL
  /\ linEntries[2].startDate = Date(2023, 11, 30, 0)
  /\ linEntries[2].endDate = Date(2024, 0, 2, 0)
  /\ years = <<2023, 2024>>

(***************************************************************************)
(* C5.  Exclusive-end adaptation: the event of every entry starts at the   *)
(* entry's start unchanged; it has no end when the entry has no end date   *)
(* or ends on the day it starts, and otherwise its end is the entry's end  *)
(* one calendar day later.                                                 *)
(***************************************************************************)
NextDay(date) == [DayOfNumber(DayNumber(date) + 1) EXCEPT !.t = date.t]
PrevDay(date) == [DayOfNumber(DayNumber(date) - 1) EXCEPT !.t = date.t]
SameDay(a, b) == DayNumber(a) = DayNumber(b)

C5_ExclusiveEndAdaptation ==
  calRoot =>
    /\ Len(events) = Len(calEntries)
    /\ \A i \in 1..Len(calEntries) :
         LET e == calEntries[i] IN
         /\ events[i].start = e.startDate
         /\ events[i].extendedProps.entry = e.entry
         /\ events[i].end = IF e.endDate = NULL THEN NULL
                            ELSE IF SameDay(e.startDate, e.endDate) THEN NULL
                            ELSE NextDay(e.endDate)

\* an entry ending on the last day of a year has an event ending on the
\* first day of the next
C5_Witness ==
  /\ calRoot
  /\ \E i \in 1..Len(calEntries) :
       /\ calEntries[i].startDate = Date(2024, 11, 30, 0)
       /\ calEntries[i].endDate = Date(2024, 11, 31, 0)
       /\ events[i].end = Date(2025, 0, 1, 0)

(***************************************************************************)
(* C6.  Reverse adaptation on drop: onEventDrop is called with the record  *)
(* of the event, the new start the widget reports, and as end: the         *)
(* reported end one day earlier when the entry had an end date and the     *)
(* widget reports an end, the new start when the entry had an end date and *)
(* the widget reports none, and no end when the entry had no end date.     *)
(***************************************************************************)
C6_ReverseAdaptationOnDrop ==
  IF drop = NULL THEN TRUE
  ELSE /\ drop.call # NULL
       /\ drop.call.entry = drop.entry
       /\ drop.call.newStart = drop.newStart
       /\ drop.call.newEnd = IF drop.originalEndDate = NULL THEN NULL
                             ELSE IF drop.newEnd # NULL THEN PrevDay(drop.newEnd)
                             ELSE drop.newStart

\* the widget reports the first day of a year as end: the last day of the
\* year before is passed on
C6_Witness ==
  IF drop = NULL THEN FALSE
  ELSE /\ drop.originalEndDate # NULL
       /\ drop.newEnd = Date(2025, 0, 1, 0)
       /\ drop.call.newEnd = Date(2024, 11, 31, 0)
       /\ drop.call.newStart = Date(2024, 11, 30, 0)


(***************************************************************************)
(* C7.  Drop failure handling: a drop whose persistence rejects is         *)
(* reverted and one whose persistence resolves is not; while the           *)
(* persistence is under way nothing is reverted; onEventDrop is called at  *)
(* most once for a drop; nothing is thrown out of handleEventDrop; and     *)
(* without an onEventDrop handler, or without a new start from the         *)
(* widget, the drop is reverted and onEventDrop is not called.             *)
(***************************************************************************)
DropInputs == DropTargets \cup {NULL}

C7_DropFailureHandling ==
  /\ IF drop = NULL THEN TRUE
     ELSE /\ drop.calls <= 1
          /\ ~drop.thrown
          /\ drop.phase = "pending" => ~drop.revert /\ drop.calls = 1
          /\ drop.phase = "done" =>
               /\ drop.outcome \in {"resolved", "rejected"}
               /\ drop.outcome = "rejected" => drop.revert /\ drop.writes = << >>
               /\ drop.outcome = "resolved" => ~drop.revert
  /\ \A original \in DropInputs, newStart \in DropInputs, newEnd \in DropInputs :
       /\ handleEventDrop(FALSE, 2, original, newStart, newEnd)
            = [revert |-> TRUE, call |-> NULL]
       /\ handleEventDrop(TRUE, 2, original, NULL, newEnd)
            = [revert |-> TRUE, call |-> NULL]

\* the persistence of a drop was rejected: the drop is reverted and the note
\* is as it was
C7_Witness ==
  IF drop = NULL THEN FALSE
  ELSE /\ drop.phase = "done" /\ drop.outcome = "rejected" /\ drop.revert
       /\ drop.calls = 1
       /\ vault[2].fm = FrontMatter(IsoText(Date(2024, 1, 27, 0)), IsoText(Date(2024, 1, 28, 1)))

(***************************************************************************)
(* C8.  Editability: the editable flag handed to the widget is true        *)
(* exactly when the start-date property now configured is a property of    *)
(* the note and the end-date property is not configured or is a property   *)
(* of the note too, whatever the configuration was before.                 *)
(***************************************************************************)
NoteOwned(prop) == prop \in {NoteStart, NoteEnd}

C8_EditabilityRule ==
  editable = (/\ NoteOwned(calStartDateProp)
              /\ (calEndDateProp = NoProp \/ NoteOwned(calEndDateProp)))

\* the end-date property is no property of the note while a drop made under
\* the earlier configuration is still under way: the widget is not editable
C8_Witness ==
  /\ calRoot /\ ~editable
  /\ calStartDateProp = NoteStart /\ calEndDateProp = FileCtime
  /\ DropPending

(***************************************************************************)
(* C9.  Persisted format: a drop that is persisted always writes the start *)
(* property, as the YYYY-MM-DD text of the day of the new start; it writes *)
(* the end property only when an end-date property is configured and a new *)
(* end is passed, as the YYYY-MM-DD text of the day of that end; it writes  *)
(* nothing else, and never a time of day.                                  *)
(***************************************************************************)
StartKey == <<"s", "t", "a", "r", "t">>
EndKey == <<"e", "n", "d">>
IsDayText(s) == Len(s) = 10 /\ IsIsoText(s)

C9_PersistedFormat ==
  /\ IF drop = NULL THEN TRUE
     ELSE drop.outcome = "resolved" =>
            LET w == drop.writes IN
            /\ Len(w) \in {1, 2}
            /\ w[1].key = StartKey
            /\ IsDayText(w[1].value)
            /\ ParseIso(w[1].value) = startOfDay(drop.call.newStart)
            /\ Len(w) = 2 =>
                 /\ w[2].key = EndKey
                 /\ drop.mutatedWith # NoProp
                 /\ drop.call.newEnd # NULL
                 /\ IsDayText(w[2].value)
                 /\ ParseIso(w[2].value) = startOfDay(drop.call.newEnd)
  /\ \A date \in {Date(2024, 1, 29, 1), Date(2025, 0, 1, 1), Date(2024, 11, 31, 0)} :
       /\ IsDayText(formatDate(date))
       /\ ParseIso(formatDate(date)) = startOfDay(date)

\* an entry whose end carried a time is dropped and both dates are written
C9_Witness ==
  IF drop = NULL THEN FALSE
  ELSE /\ drop.outcome = "resolved"
       /\ drop.originalEndDate = Date(2024, 1, 28, 1)
       /\ drop.writes = <<[key |-> StartKey, value |-> IsoText(Date(2024, 11, 30, 0))],
                          [key |-> EndKey, value |-> IsoText(Date(2024, 11, 31, 0))]>>
       /\ vault[2].fm = FrontMatter(IsoText(Date(2024, 11, 30, 0)), IsoText(Date(2024, 11, 31, 0)))


(***************************************************************************)
(* C4.  A single-day event dragged to another day.  As stated:             *)
(* an event of an entry whose end date is on the day of its start writes   *)
(* no end date when it is dropped on another day.                          *)
(***************************************************************************)
WritesEnd(d) == \E i \in 1..Len(d.writes) : d.writes[i].key = EndKey

SingleDayDropPersisted ==
  IF drop = NULL THEN FALSE
  ELSE drop.outcome = "resolved" /\ drop.newEnd = NULL

C4_SingleDayDragWritesNoEnd ==
  SingleDayDropPersisted
    => (drop.originalEndDate # NULL /\ SameDay(drop.originalEndDate, drop.shownStart)
          => ~WritesEnd(drop))

(***************************************************************************)
(* C4, as the code has it: a persisted drop of an event without an end     *)
(* writes the day of the new start to the start property.  When the entry  *)
(* has no end date it writes nothing else, also with an end-date property  *)
(* configured; when the entry has an end date and the end-date property is *)
(* configured as the front matter is written, it writes the day of the new *)
(* start to the end property too.                                          *)
(***************************************************************************)
C4_SingleDayDragWritesEndAsStart ==
  SingleDayDropPersisted =>
    /\ drop.writes[1] = [key |-> StartKey, value |-> IsoText(drop.newStart)]
    /\ drop.originalEndDate = NULL => Len(drop.writes) = 1
    /\ drop.originalEndDate # NULL /\ drop.mutatedWith # NoProp =>
         drop.writes = <<[key |-> StartKey, value |-> IsoText(drop.newStart)],
                         [key |-> EndKey, value |-> IsoText(drop.newStart)]>>
    /\ drop.originalEndDate # NULL /\ drop.mutatedWith = NoProp => Len(drop.writes) = 1

\* an entry starting and ending on 2024-02-27 is dropped on 2024-02-28 with
\* the end-date property configured: start and end are written as 2024-02-28
C4_Witness ==
  /\ SingleDayDropPersisted
  /\ drop.originalEndDate = Date(2024, 1, 27, 0)
  /\ drop.shownStart = Date(2024, 1, 27, 0)
  /\ calEndDateProp = NoteEnd
  /\ vault[2].fm = FrontMatter(IsoText(Date(2024, 1, 28, 0)), IsoText(Date(2024, 1, 28, 0)))

(***************************************************************************)
(* C3.  Round trip of a drag: when the entry has an end date and the       *)
(* widget reports the new start S' and the new exclusive end X', with the  *)
(* configuration the same from the drop to the writing of the front        *)
(* matter, the end passed on is the day before X', the note's start and    *)
(* end become the YYYY-MM-DD texts of S' and of the day before X', and     *)
(* once the view has the note's new data under the same configuration the  *)
(* event of the note starts at S' and ends at X' again.                    *)
(***************************************************************************)
NoteOf(file) == vault[CHOOSE n \in 1..Len(vault) : vault[n].file = file]

MultiDayDropPersisted ==
  IF drop = NULL THEN FALSE
  ELSE /\ drop.outcome = "resolved"
       /\ drop.originalEndDate # NULL /\ drop.newEnd # NULL
       /\ drop.mutatedWith = NoteEnd

C3_DragRoundTrip ==
  MultiDayDropPersisted =>
    /\ drop.call.newEnd = PrevDay(drop.newEnd)
    /\ NoteOf(drop.entry).fm = FrontMatter(IsoText(drop.newStart), IsoText(PrevDay(drop.newEnd)))
    /\ \A n \in 1..Len(vault) : vault[n].file # drop.entry => vault[n].fm = FrontMatter(NotADate, << >>)
    /\ (calRoot /\ calData.data = vault /\ calStartDateProp = NoteStart
           /\ calEndDateProp = NoteEnd) =>
         \E i \in 1..Len(events) :
           /\ events[i].extendedProps.entry = drop.entry
           /\ events[i].start = drop.newStart
           /\ events[i].end = drop.newEnd
           /\ \A j \in 1..Len(events) : events[j].extendedProps.entry = drop.entry => j = i

\* a two-day event was dropped on 2024-02-28, the widget reporting the end
\* 2024-03-01; the note now ends on 2024-02-29 and, rendered from the new
\* data, its event is where the widget put it
C3_Witness ==
  /\ MultiDayDropPersisted
  /\ drop.newStart = Date(2024, 1, 28, 0) /\ drop.newEnd = Date(2024, 2, 1, 0)
  /\ drop.shownStart = Date(2024, 11, 30, 0)
  /\ NoteOf(drop.entry).fm = FrontMatter(IsoText(Date(2024, 1, 28, 0)), IsoText(Date(2024, 1, 29, 0)))
  /\ calRoot /\ calData.data = vault
  /\ \E i \in 1..Len(events) :
       events[i].start = Date(2024, 1, 28, 0) /\ events[i].end = Date(2024, 2, 1, 0)


(***************************************************************************)
(* C11.  Year navigation is clamped: from a year of the year list the      *)
(* previous-year and next-year handlers go one place down and up the list; *)
(* at the first year the previous-year handler, and at the last year the   *)
(* next-year handler, changes nothing and its button is disabled; the year *)
(* shown after a click is a year of the list; and with no entry to show    *)
(* the year list is the current year alone and the year shown is the       *)
(* current year.                                                           *)
(***************************************************************************)
C11_YearNavigationClamped ==
  linRoot =>
    /\ \A i \in 1..Len(years) :
         /\ prevYear(years, years[i]) = IF i = 1 THEN years[1] ELSE years[i - 1]
         /\ nextYear(years, years[i]) = IF i = Len(years) THEN years[i] ELSE years[i + 1]
         /\ prevDisabled(years, years[i]) = (i = 1)
         /\ nextDisabled(years, years[i]) = (i = Len(years))
    /\ includes(years, currentYear) =>
         /\ includes(years, prevYear(years, currentYear))
         /\ includes(years, nextYear(years, currentYear))
    /\ linEntries = << >> => years = <<thisYear>> /\ currentYear = thisYear


\* the notes with a date are gone from the data while the view showed 2023:
\* the year list is the current year and the year shown is still 2023
C11_Witness ==
  /\ linRoot /\ linEntries = << >>
  /\ years = <<thisYear>>
  /\ currentYear = 2023 /\ thisYear = 2024
  /\ prevDisabled(years, currentYear) /\ nextDisabled(years, currentYear)


(***************************************************************************)
(* C12.  Primary occupant and overflow: in the year shown, the cell of a   *)
(* day with k >= 1 occupants shows, and opens on a click, the occupant     *)
(* that comes first in the host's data, and with k > 1 it shows            *)
(* "+(k-1) more".                                                          *)
(***************************************************************************)
\* the places in the host's data of the notes that occupy a day
OccupantsOf(n) ==
  {j \in 1..Len(data.data) :
     \E i \in 1..Len(linEntries) :
       /\ linEntries[i].entry = data.data[j].file
       /\ FirstDay(linEntries[i]) <= n /\ n <= LastDay(linEntries[i])}

CellOf(date) ==
  renderCell(entriesByDate, linOrder, data.data, date.y, date.m, date.d, TRUE,
             linOptions.highlightWeekends, linOptions.alignWeekdays)

C12_PrimaryOccupantAndOverflow ==
  linRoot =>
    \A n \in DayNumber(Date(currentYear, 0, 1, 0))..DayNumber(Date(currentYear, 11, 31, 0)) :
      LET occupants == OccupantsOf(n)
          cell == CellOf(DayOfNumber(n))
      IN  occupants # {} =>
            /\ cell.kind = "entry"
            /\ cell.click = data.data[SetMin(occupants)].file
            /\ Cardinality(occupants) > 1 => cell.more = [v |-> Cardinality(occupants) - 1]

\* 2023-12-30 has two occupants, the first without a property to show: the
\* cell shows no "+1 more"
C12_Witness ==
  /\ linRoot /\ currentYear = 2023
  /\ Cardinality(OccupantsOf(DayNumber(Date(2023, 11, 30, 0)))) = 2
  /\ linOrder = <<NoteEnd>>
  /\ CellOf(Date(2023, 11, 30, 0)).chips = << >>
  /\ CellOf(Date(2023, 11, 30, 0)).more = NULL


(***************************************************************************)
(* C13.  Weekday-aligned year layout: for every month of the year the      *)
(* slots of the month are the smallest multiple of 7 that is at least the  *)
(* weekday of its first day (Sunday = 0) plus its days; the weekday header *)
(* and all twelve rows have as many slots as the greatest of the twelve,   *)
(* a row's slots past its own being padding.                               *)
(***************************************************************************)
\* by the calendar: weekday of a date (2000-01-01 was a Saturday) and the
\* days of a month
WeekdayOf(date) == (DayNumber(date) + 6) % 7
DaysOfMonth(year, month) ==
  (IF month = 11 THEN DayNumber(Date(year + 1, 0, 1, 0))
   ELSE DayNumber(Date(year, month + 1, 1, 0))) - DayNumber(Date(year, month, 1, 0))

SmallestMultipleOf7(n) == CHOOSE t \in 0..(n + 7) : t % 7 = 0 /\ t >= n /\ t - 7 < n

OwnSlots(row) == {idx \in 1..Len(row) : row[idx].kind # "pad"}

C13_AlignedYearLayout ==
  yearGrid # NULL =>
    LET year == yearGrid.year
        grid == yearGrid.grid
        total == [mi \in 1..12 |->
                    SmallestMultipleOf7(WeekdayOf(Date(year, mi - 1, 1, 0))
                                          + DaysOfMonth(year, mi - 1))]
        most == SetMax({total[mi] : mi \in 1..12})
    IN  /\ Len(grid.weekdays) = most
        /\ Len(grid.rows) = 12
        /\ \A mi \in 1..12 :
             /\ Len(grid.rows[mi]) = most
             /\ OwnSlots(grid.rows[mi]) = 1..total[mi]

\* 2023 begins on a Sunday: January has 35 slots of its own, and the rows
\* have the 42 slots that April, beginning on a Saturday, needs
C13_Witness ==
  /\ yearGrid # NULL
  /\ yearGrid.year = 2023
  /\ Len(yearGrid.grid.weekdays) = 42
  /\ OwnSlots(yearGrid.grid.rows[1]) = 1..35
  /\ Len(yearGrid.grid.rows[1]) = 42
  /\ OwnSlots(yearGrid.grid.rows[4]) = 1..42

(***************************************************************************)
(* C14.  Overlay opacity normalisation: once a view has loaded its         *)
(* configuration, a propertyOverlayOpacity that is a number v, or the      *)
(* decimal text of an integer v, gives clamp(v, 0, 100) / 100, and a text  *)
(* with a letter in it gives 0.6; in the month view and in the linear view *)
(* alike.                                                                  *)
(***************************************************************************)
calLoaded == calOptions # calConstructed

linLoaded == linOptions # linConstructed

SameNumber(a, b) == a.num * b.den = b.num * a.den

Clamp(v, lo, hi) == IF v < lo THEN lo ELSE IF v > hi THEN hi ELSE v

\* the decimal text of an integer
TextOf(v) == IF v < 0 THEN <<"-">> \o StringOf(0 - v) ELSE StringOf(v)

\* the integers whose texts and values the configurations hold
OptionIntegers == (0 - 9)..300

HasLetter(s) ==
  \E i \in 1..Len(s) : ~IsDigit(s[i]) /\ s[i] \notin {" ", "-", "+", "."}

OpacityNormalised(opacity, raw) ==
  /\ \A v \in OptionIntegers :
       (raw = NumberValue(Num(v)) \/ raw = String(TextOf(v)))
         => SameNumber(opacity, Frac(Clamp(v, 0, 100), 100))
  /\ (raw.type = "string" /\ HasLetter(raw.str)) => SameNumber(opacity, Frac(6, 10))

C14_OverlayOpacityNormalised ==
  /\ calLoaded =>
       OpacityNormalised(calOptions.propertyOverlayOpacity,
                         configValues.propertyOverlayOpacity)
  /\ linLoaded =>
       OpacityNormalised(linOptions.propertyOverlayOpacity,
                         configValues.propertyOverlayOpacity)

\* both views have loaded the text "70" and hold 0.7
C14_Witness ==
  /\ calLoaded
  /\ linLoaded
  /\ configValues.propertyOverlayOpacity = String(<<"7", "0">>)
  /\ SameNumber(calOptions.propertyOverlayOpacity, Frac(7, 10))
  /\ SameNumber(linOptions.propertyOverlayOpacity, Frac(7, 10))

(***************************************************************************)
(* C15.  Malformed configuration falls back to the default: once a view    *)
(* has loaded its configuration, every display option whose value is       *)
(* missing, null, a boolean, an object or a text that is not a number (the *)
(* empty and the blank text included) holds its documented default:        *)
(* opacity 0.6, day-number size 18, day-cell height 120, chip scale 1, the *)
(* boolean options false, week start 1; whatever the other options hold.   *)
(***************************************************************************)
IsBlank(s) == \A i \in 1..Len(s) : s[i] = " "

\* not a number and not the text of one
MalformedNumber(raw) ==
  \/ raw.type \in {"undefined", "null", "boolean", "object"}
  \/ raw.type = "string" /\ (IsBlank(raw.str) \/ HasLetter(raw.str))

NotABoolean(raw) == raw.type # "boolean"

NotADayName(raw) ==
  raw.type # "string" \/ \A n \in 1..Len(DayNames) : DayNames[n] # raw.str

C15_MalformedFallsBackToDefault ==
  /\ calLoaded =>
       /\ MalformedNumber(configValues.propertyOverlayOpacity)
            => calOptions.propertyOverlayOpacity = Frac(6, 10)
       /\ MalformedNumber(configValues.dayNumberSize) => calOptions.dayNumberSize = 18
       /\ MalformedNumber(configValues.dayCellHeight) => calOptions.dayCellHeight = 120
       /\ NotABoolean(configValues.alignPropertiesBottom)
            => calOptions.alignPropertiesBottom = FALSE
       /\ NotADayName(configValues.weekStartDay) => calOptions.weekStartDay = [number |-> 1]
  /\ linLoaded =>
       /\ MalformedNumber(configValues.propertyOverlayOpacity)
            => linOptions.propertyOverlayOpacity = Frac(6, 10)
       /\ MalformedNumber(configValues.dayNumberSize) => linOptions.dayNumberSize = 18
       /\ MalformedNumber(configValues.dayCellHeight) => linOptions.dayCellHeight = 120
       /\ MalformedNumber(configValues.propertyChipScale)
            => linOptions.propertyChipScale = Frac(1, 1)
       /\ NotABoolean(configValues.alignPropertiesBottom)
            => linOptions.alignPropertiesBottom = FALSE
       /\ NotABoolean(configValues.alignWeekdays) => linOptions.alignWeekdays = FALSE
       /\ NotABoolean(configValues.highlightWeekends) => linOptions.highlightWeekends = FALSE

\* the month view has loaded an empty propertyOverlayOpacity and holds 0
C15_Witness ==
  /\ calLoaded
  /\ configValues.propertyOverlayOpacity = String(<< >>)
  /\ SameNumber(calOptions.propertyOverlayOpacity, Frac(0, 1))

(***************************************************************************)
(* C16.  Image resolution order: with the app at hand, the image of an     *)
(* entry is the first that is found of: the image property if one is       *)
(* configured, then the front-matter keys cover, image, images, thumbnail, *)
(* banner, featured, photo in that order, then the embeds; it carries the  *)
(* source of its tier.  When nothing is found, or the property gives       *)
(* nothing and the metadata cache does not know the note, there is none.   *)
(***************************************************************************)
PhotoImage == ImageInfo(<<"r", "e", "s", ":", "p", "h", "o", "t", "o", ".", "p", "n", "g">>, <<"p", "h", "o", "t", "o">>, "")
UpperImage == ImageInfo(<<"r", "e", "s", ":", "B", ".", "P", "N", "G">>, <<"B">>, "")
UrlImage == ImageInfo(ExternalUrl, << >>, "")

\* what each reference of the vault's notes shows, NULL for nothing
ShownBy(reference) ==
  CASE reference \in {WikiPhoto, MdPhoto, QuotedPhoto, <<"p", "h", "o", "t", "o", ".", "p", "n", "g">>} -> PhotoImage
    [] reference \in {AliasedUpper, <<"B", ".", "P", "N", "G">>} -> UpperImage
    [] reference = ExternalUrl -> UrlImage
    [] OTHER -> NULL

\* the first element of a sequence that is not NULL
FirstFound(seq) ==
  IF \A i \in 1..Len(seq) : seq[i] = NULL THEN NULL
  ELSE seq[CHOOSE i \in 1..Len(seq) : seq[i] # NULL /\ \A j \in 1..(i - 1) : seq[j] = NULL]

ShownByItem(item) ==
  CASE item.kind = "string" -> ShownBy(item.s)
    [] item.kind = "object" -> ShownBy(item.fields[1][2])
    [] item.kind = "file" -> PhotoImage
    [] OTHER -> NULL

ShownByValue(value) ==
  IF value.kind = "array"
  THEN FirstFound([i \in 1..Len(value.items) |-> ShownByItem(value.items[i])])
  ELSE ShownByItem(value)

Tagged(info, source) == IF info = NULL THEN NULL ELSE [info EXCEPT !.source = source]

PropertyTier(c) ==
  IF c.imageProperty /\ c.value # NULL THEN Tagged(ShownByValue(c.value), "property") ELSE NULL

FrontmatterTier(c) ==
  FirstFound([k \in 1..Len(IMAGE_FRONTMATTER_KEYS) |->
                Tagged(ShownByValue(c.frontmatter[IMAGE_FRONTMATTER_KEYS[k]]), "frontmatter")])

EmbedTier(c) ==
  FirstFound([i \in 1..Len(c.embeds) |-> Tagged(ShownBy(c.embeds[i]), "embed")])

C16_ImageResolutionOrder ==
  (entryImage # NULL /\ imageCase.app) =>
    entryImage.returned =
      IF PropertyTier(imageCase) # NULL THEN PropertyTier(imageCase)
      ELSE IF ~imageCase.cache THEN NULL
      ELSE FirstFound(<<FrontmatterTier(imageCase), EmbedTier(imageCase)>>)

\* the image property is configured and gives nothing, the cover gives
\* nothing, the photo key gives the image that is returned, and an embed
\* would have given another
C16_Witness ==
  /\ entryImage # NULL
  /\ imageCase.app
  /\ imageCase.cache
  /\ imageCase.imageProperty
  /\ imageCase.value = Text(WikiGone)
  /\ imageCase.frontmatter["cover"] = List(<<Text(WikiNote), Text(WikiGone)>>)
  /\ imageCase.frontmatter["photo"] = Text(ExternalUrl)
  /\ EmbedTier(imageCase) = Tagged(UpperImage, "embed")
  /\ entryImage.returned = Tagged(UrlImage, "frontmatter")

(***************************************************************************)
(* C17.  Front-matter candidates in array order: when the property tier    *)
(* gives nothing and the cache knows the note, the first front-matter key  *)
(* with a candidate that shows an image gives the first such candidate of  *)
(* its array; cover: ["[[photo.png]]", "https://x/y.jpg"] gives photo.png. *)
(***************************************************************************)
KeyShows(c, k) == ShownByValue(c.frontmatter[IMAGE_FRONTMATTER_KEYS[k]]) # NULL

C17_FrontmatterCandidatesInOrder ==
  (entryImage # NULL /\ imageCase.app /\ imageCase.cache /\ PropertyTier(imageCase) = NULL) =>
    \A k \in 1..Len(IMAGE_FRONTMATTER_KEYS) :
      LET rawValue == imageCase.frontmatter[IMAGE_FRONTMATTER_KEYS[k]]
      IN  (/\ rawValue.kind = "array"
           /\ KeyShows(imageCase, k)
           /\ \A earlier \in 1..(k - 1) : ~KeyShows(imageCase, earlier))
            => entryImage.returned =
                 Tagged(FirstFound([i \in 1..Len(rawValue.items) |->
                                      ShownByItem(rawValue.items[i])]), "frontmatter")

\* the cover lists the wiki link to photo.png before the URL, and the image
\* returned is photo.png
C17_Witness ==
  /\ entryImage # NULL
  /\ imageCase.app
  /\ imageCase.cache
  /\ PropertyTier(imageCase) = NULL
  /\ imageCase.frontmatter["cover"] = List(<<Text(WikiPhoto), Text(ExternalUrl)>>)
  /\ entryImage.returned = Tagged(PhotoImage, "frontmatter")

(***************************************************************************)
(* C18.  Handling a drop leaves the entries alone: a step of a drop, the   *)
(* drop itself or the settling of its write, changes neither the month     *)
(* view's entries and events nor the linear view's entries and day-map;    *)
(* the entries change only in a step that extracts them anew from the      *)
(* host's data, which a data-updated notification or a resize does.        *)
(***************************************************************************)
C18_DropLeavesEntries ==
  [][/\ drop' # drop =>
          /\ calEntries' = calEntries
          /\ events' = events
          /\ linEntries' = linEntries
          /\ entriesByDate' = entriesByDate
     /\ calEntries' # calEntries =>
          /\ drop' = drop
          /\ calData' # NULL
          /\ calEntries' = extractEntries(calData'.data, 1,
                                          calStartDateProp', calEndDateProp')]_vars

\* a drop was written to the note, and the entries still hold the dates the
\* note had before
C18_Witness ==
  /\ drop # NULL
  /\ drop.phase = "done"
  /\ drop.outcome = "resolved"
  /\ drop.writes # << >>
  /\ calEntries # << >>
  /\ calEntries # extractEntries(vault, 1, calStartDateProp, calEndDateProp)

(***************************************************************************)
(* C19.  Atomic refresh: while a view is mounted, its entries are exactly  *)
(* the records of the host's current data whose start property extracts to *)
(* a date, in the host's order, each with its extracted end, or with none  *)
(* when the end property is unset or does not extract; and what is         *)
(* rendered, the month view's events and the linear view's day-map, is     *)
(* made of these entries and of no other.                                  *)
(***************************************************************************)
\* the positions of the records whose start extracts to a date
Kept(records, startProp) ==
  {i \in 1..Len(records) : extractDate(records[i], startProp) # NULL}

\* the position of the n-th such record
NthKept(records, startProp, n) ==
  CHOOSE i \in Kept(records, startProp) :
    Cardinality({j \in Kept(records, startProp) : j < i}) = n - 1

EntriesOfData(entries, records, startProp, endProp) ==
  /\ Len(entries) = Cardinality(Kept(records, startProp))
  /\ \A n \in 1..Len(entries) :
       LET rec == records[NthKept(records, startProp, n)]
       IN  /\ entries[n].entry = rec.file
           /\ entries[n].startDate = extractDate(rec, startProp)
           /\ entries[n].endDate =
                IF endProp = NoProp THEN NULL ELSE extractDate(rec, endProp)

OccupantsOfMap(map) == UNION {{map[key][i] : i \in 1..Len(map[key])} : key \in DOMAIN map}

C19_AtomicRefresh ==
  /\ linRoot =>
       /\ EntriesOfData(linEntries, data.data, linStartDateProp, linEndDateProp)
       /\ OccupantsOfMap(entriesByDate) \subseteq {linEntries[n] : n \in 1..Len(linEntries)}
  /\ calRoot =>
       /\ EntriesOfData(calEntries, calData.data, calStartDateProp, calEndDateProp)
       /\ Len(events) = Len(calEntries)
       /\ \A n \in 1..Len(events) :
            /\ events[n].extendedProps.entry = calEntries[n].entry
            /\ events[n].start = calEntries[n].startDate

\* the data holds a record whose start is no date before one with a start
\* and an end, and the linear view shows the second alone
C19_Witness ==
  /\ linRoot
  /\ Len(data.data) = 2
  /\ extractDate(data.data[1], linStartDateProp) = NULL
  /\ Len(linEntries) = 1
  /\ linEntries[1].entry = data.data[2].file
  /\ linEntries[1].endDate # NULL
  /\ OccupantsOfMap(entriesByDate) = {linEntries[1]}

(***************************************************************************)
(* C20.  An entry whose end is a day before its start is rendered in no    *)
(* view: it is in no bucket of the linear view's day-map, and the month    *)
(* view hands no event for it to the widget.                               *)
(***************************************************************************)
EndsBeforeStart(entry) ==
  IF entry.endDate = NULL THEN FALSE
  ELSE DayNumber(entry.endDate) < DayNumber(entry.startDate)

C20_LinearViewDropsReversed ==
  linRoot =>
    \A n \in 1..Len(linEntries) :
      EndsBeforeStart(linEntries[n]) =>
        \A occupant \in OccupantsOfMap(entriesByDate) : occupant.entry # linEntries[n].entry

C20_MonthViewDropsReversed ==
  calRoot =>
    \A n \in 1..Len(calEntries) :
      EndsBeforeStart(calEntries[n]) =>
        \A i \in 1..Len(events) : events[i].extendedProps.entry # calEntries[n].entry

C20_ReversedEntryNeverRendered ==
  /\ C20_LinearViewDropsReversed
  /\ C20_MonthViewDropsReversed

\* the month view holds an entry that ends the day before it starts, and the
\* widget has an event for it, shown on the day of its start
C20_Witness ==
  /\ calRoot
  /\ \E n \in 1..Len(calEntries) :
       /\ EndsBeforeStart(calEntries[n])
       /\ events[n].extendedProps.entry = calEntries[n].entry
       /\ widgetEvent(events[n]).start = startOfDay(calEntries[n].startDate)
       /\ widgetEvent(events[n]).end = NULL

(***************************************************************************)
(* C21.  Date extraction is total: while the linear view is mounted, its   *)
(* entries are the records whose start property names a day, in order,     *)
(* each with the day its end property names or with no end; a property     *)
(* that is absent, is no date, is a date without a day, or whose lookup    *)
(* throws, gives no date and no error.                                     *)
(***************************************************************************)
\* the day a text names, by the texts of the known days; NULL for none
DayNamedBy(text) ==
  IF \E n \in 1..Len(ExtractDays) : IsoText(ExtractDays[n]) = text
  THEN ExtractDays[CHOOSE n \in 1..Len(ExtractDays) : IsoText(ExtractDays[n]) = text]
  ELSE NULL

\* the date a property of a record holds, NULL for none
DateHeld(rec, propId) ==
  IF propId = FileCtime THEN rec.ctime
  ELSE IF propId = NoteStart /\ StartKey \in DOMAIN rec.fm THEN DayNamedBy(rec.fm[StartKey])
  ELSE IF propId = NoteEnd /\ EndKey \in DOMAIN rec.fm THEN DayNamedBy(rec.fm[EndKey])
  ELSE NULL

Dated(records, propId) == {i \in 1..Len(records) : DateHeld(records[i], propId) # NULL}

C21_ExtractionIsTotal ==
  linRoot =>
    LET records == data.data
        dated == Dated(records, linStartDateProp)
    IN  /\ Len(linEntries) = Cardinality(dated)
        /\ \A n \in 1..Len(linEntries) :
             LET i == CHOOSE i \in dated : Cardinality({j \in dated : j < i}) = n - 1
             IN  /\ linEntries[n].entry = records[i].file
                 /\ linEntries[n].startDate = DateHeld(records[i], linStartDateProp)
                 /\ linEntries[n].endDate = DateHeld(records[i], linEndDateProp)

\* the first record's start is a date without a day and the second's names
\* a day; the lookup of the end property throws; the second alone is shown,
\* without an end
C21_Witness ==
  /\ linRoot
  /\ linStartDateProp = NoteStart
  /\ linEndDateProp = FormulaBroken
  /\ Len(data.data) = 2
  /\ getValue(data.data[1], NoteStart) = [kind |-> "date", date |-> NULL]
  /\ getValue(data.data[2], FormulaBroken) = Thrown
  /\ Len(linEntries) = 1
  /\ linEntries[1].entry = data.data[2].file
  /\ linEntries[1].endDate = NULL

(***************************************************************************)
(* C22.  Clamping invariant: whatever the configuration holds and however  *)
(* often it is loaded, the overlay opacity is in [0, 1], the day-number    *)
(* size in [12, 40], the day-cell height in [80, 220], the chip scale in   *)
(* [0.6, 1.6] and the week start an integer in 0..6; and a number outside  *)
(* a range is clamped to the nearer bound.                                 *)
(***************************************************************************)
\* lo / 100 <= q <= hi / 100 for a quotient q
Within(q, lo, hi) == q.den > 0 /\ lo * q.den <= 100 * q.num /\ 100 * q.num <= hi * q.den

\* the number a configuration holds for a key is clamped into lo..hi
ClampedNumber(raw, option, lo, hi) ==
  (raw.type = "number" /\ ~raw.num.nan) => option = Clamp(raw.num.n, lo, hi)

C22_NumericOptionsInRange ==
  /\ Within(calOptions.propertyOverlayOpacity, 0, 100)
  /\ calOptions.dayNumberSize \in 12..40
  /\ calOptions.dayCellHeight \in 80..220
  /\ Within(linOptions.propertyOverlayOpacity, 0, 100)
  /\ linOptions.dayNumberSize \in 12..40
  /\ linOptions.dayCellHeight \in 80..220
  /\ Within(linOptions.propertyChipScale, 60, 160)
  /\ calLoaded =>
       /\ ClampedNumber(configValues.propertyOverlayOpacity,
                        calOptions.propertyOverlayOpacity.num, 0, 100)
       /\ ClampedNumber(configValues.dayNumberSize, calOptions.dayNumberSize, 12, 40)
       /\ ClampedNumber(configValues.dayCellHeight, calOptions.dayCellHeight, 80, 220)
  /\ linLoaded =>
       /\ ClampedNumber(configValues.propertyOverlayOpacity,
                        linOptions.propertyOverlayOpacity.num, 0, 100)
       /\ ClampedNumber(configValues.dayNumberSize, linOptions.dayNumberSize, 12, 40)
       /\ ClampedNumber(configValues.dayCellHeight, linOptions.dayCellHeight, 80, 220)
       /\ ClampedNumber(configValues.propertyChipScale,
                        linOptions.propertyChipScale.num, 60, 160)

C22_WeekStartInRange == calOptions.weekStartDay \in {[number |-> n] : n \in 0..6}

C22_ClampingInvariant ==
  /\ C22_NumericOptionsInRange
  /\ C22_WeekStartInRange

\* the month view has loaded a week start that names a member every object
\* inherits, and holds that member
C22_Witness ==
  /\ calLoaded
  /\ configValues.weekStartDay = String(<<"v", "a", "l", "u", "e", "O", "f">>)
  /\ calOptions.weekStartDay = [inherited |-> <<"v", "a", "l", "u", "e", "O", "f">>]

(***************************************************************************)
(* C23.  Weekday alignment of cells: in the weekday-aligned year, every    *)
(* day of every month is rendered once, in the slot firstWeekday + day - 1 *)
(* counted from 0, whose index modulo 7 is the day's weekday (Sunday = 0)  *)
(* and whose column header names that weekday; every other slot of the row *)
(* is an out-of-month cell and shows no record.                            *)
(***************************************************************************)
IsDayCell(cell) == cell.kind \in {"day", "entry"}

C23_WeekdayAlignmentOfCells ==
  yearGrid # NULL =>
    LET year == yearGrid.year
        grid == yearGrid.grid
    IN  \A mi \in 1..12 :
          LET row == grid.rows[mi]
              first == WeekdayOf(Date(year, mi - 1, 1, 0))
              days == DaysOfMonth(year, mi - 1)
          IN  /\ \A day \in 1..days :
                   LET idx == first + day - 1
                   IN  /\ {i \in 1..Len(row) : IsDayCell(row[i]) /\ row[i].day = day}
                            = {idx + 1}
                       /\ idx % 7 = WeekdayOf(Date(year, mi - 1, day, 0))
                       /\ grid.weekdays[idx + 1]
                            = WeekdayNames[WeekdayOf(Date(year, mi - 1, day, 0)) + 1]
              /\ \A i \in 1..Len(row) :
                   (i - 1 < first \/ i - 1 >= first + days)
                     => row[i] \in {[kind |-> "out-of-month"], [kind |-> "pad"]}

\* 2024-02-29, a Thursday, is in slot 32 of February, under a Thursday
\* header, and holds the record of the month's last day; slot 33 is out of
\* the month
C23_Witness ==
  /\ yearGrid # NULL
  /\ yearGrid.year = 2024
  /\ yearGrid.grid.rows[2][33].kind = "entry"
  /\ yearGrid.grid.rows[2][33].day = 29
  /\ yearGrid.grid.weekdays[33] = "Th"
  /\ yearGrid.grid.rows[2][34] = [kind |-> "out-of-month"]

(***************************************************************************)
(* C24.  Weekend highlighting is suppressed when the weekday-aligned       *)
(* layout is not active: the linear view's highlightWeekends is true only  *)
(* if its alignWeekdays is true, and after a load it is true exactly when  *)
(* the configuration stores true for both.                                 *)
(***************************************************************************)
C24_HighlightOnlyWhenAligned ==
  /\ linOptions.highlightWeekends => linOptions.alignWeekdays
  /\ linLoaded =>
       (linOptions.highlightWeekends
          <=> (/\ configValues.alignWeekdays = Boolean(TRUE)
               /\ configValues.highlightWeekends = Boolean(TRUE)))

\* the configuration stores highlightWeekends without alignWeekdays, and the
\* loaded view does not highlight
C24_Witness ==
  /\ linLoaded
  /\ configValues.highlightWeekends = Boolean(TRUE)
  /\ configValues.alignWeekdays # Boolean(TRUE)
  /\ ~linOptions.highlightWeekends



(***************************************************************************)
(* C25.  Per-day weekend highlight of the linear year: the calculation     *)
(* runs only if both alignWeekdays and highlightWeekends are set, and when *)
(* both are set every valid day cell whose weekday is Saturday or Sunday   *)
(* is marked as a weekend cell, and no other cell is.                      *)
(***************************************************************************)
\* the day-map's bucket of one column of a month row, holding one record
OccupiedDayMap(year, month, day) ==
  [key \in {dateKey(year, month, day)} |->
     <<[entry |-> 1, startDate |-> Date(year, 0, 1, 0), endDate |-> Date(year, 11, 31, 0)]>>]

\* the cell the component renders for a column of a month row under the
\* options the linear view hands it
WeekendCellOf(year, month, day) ==
  renderCell(OccupiedDayMap(year, month, day), << >>,
             <<Record(1, IsoText(Date(year, 0, 1, 0)), IsoText(Date(year, 11, 31, 0)))>>,
             year, month, day, day <= daysInMonth(year, month),
             linOptions.highlightWeekends, linOptions.alignWeekdays)

Marked(cell) == cell.kind = "entry" /\ cell.weekend

IsSaturdayOrSunday(year, month, day) ==
  /\ day <= daysInMonth(year, month)
  /\ WeekdayOf(Date(year, month, day, 0)) \in {0, 6}

C25_WeekendCellsMarkedWhenBothSet ==
  \A month \in 0..11 : \A day \in 1..31 :
    Marked(WeekendCellOf(thisYear, month, day))
      <=> (/\ linOptions.alignWeekdays
           /\ linOptions.highlightWeekends
           /\ IsSaturdayOrSunday(thisYear, month, day))

\* what the component does under every configuration the view loads: no cell
\* carries the weekend mark
C25_NoCellEverMarked ==
  \A month \in 0..11 : \A day \in 1..31 :
    ~Marked(WeekendCellOf(thisYear, month, day))

\* both flags are loaded as set and the cell of a Saturday that holds a
\* record is not marked
C25_Witness ==
  /\ linLoaded
  /\ linOptions.alignWeekdays
  /\ linOptions.highlightWeekends
  /\ thisYear = 2024
  /\ IsSaturdayOrSunday(2024, 1, 3)
  /\ WeekendCellOf(2024, 1, 3).kind = "entry"
  /\ ~WeekendCellOf(2024, 1, 3).weekend



(***************************************************************************)
(* C26.  Single-slot debounce of the remeasurement: under any interleaving *)
(* of measurement requests, frame firings and effect teardown, at most one *)
(* measurement callback is pending per view; a request cancels the unfired *)
(* one before it schedules its own; the layout variables are written only  *)
(* by a frame callback that fired, never in the request itself; and after  *)
(* a teardown the pending callback is cancelled and the observer is        *)
(* disconnected, so that no measurement of a torn-down effect writes the   *)
(* layout variables.                                                       *)
(***************************************************************************)
\* at most one request is pending, and it is the last one of a closure
\* whose cleanup has not run
OnePendingOfLiveEffect ==
  /\ Cardinality(frames) <= 1
  /\ \A f \in frames :
       /\ ~effects[f.effect].torn
       /\ effects[f.effect].frameId = f.handle

\* a closure whose cleanup has run observes nothing
TornDownIsDisconnected ==
  \A e \in 1..Len(effects) : effects[e].torn => ~effects[e].observing

\* a step that requests a frame leaves that frame alone pending and writes
\* no layout variable
RequestCancelsThenSchedules ==
  handles' # handles =>
    /\ frames' = {f \in frames' : f.handle = handles'}
    /\ Cardinality(frames') = 1
    /\ layoutVars' = layoutVars

\* a step that writes the layout variables is the firing of a pending frame
\* of a closure whose cleanup has not run
WrittenByFiredFrame ==
  layoutVars' # layoutVars =>
    \E f \in frames :
      /\ f \notin frames'
      /\ layoutVars' = [effect |-> f.effect, handle |-> f.handle]
      /\ ~effects[f.effect].torn
      /\ handles' = handles

C26_SingleSlotDebounce ==
  /\ [](OnePendingOfLiveEffect /\ TornDownIsDisconnected)
  /\ [][RequestCancelsThenSchedules /\ WrittenByFiredFrame]_vars

\* a closure was torn down after it had requested a frame twice, no frame is
\* pending, and the layout variables hold what a later closure's frame wrote
C26_Witness ==
  /\ Len(effects) >= 2
  /\ effects[1].torn
  /\ effects[1].frameId >= 2
  /\ frames = {}
  /\ layoutVars # NULL
  /\ layoutVars.effect = 2
  /\ effectDeps = NULL



(***************************************************************************)
(* C27.  The year shown stays inside the year list: after any interleaving *)
(* of refreshes and previous-year and next-year clicks the year shown is a *)
(* year of the current year list, so a refresh whose list leaves out the   *)
(* year shown does not leave the view on a year outside the list with both *)
(* navigation buttons disabled.                                            *)
(***************************************************************************)
\* the view shows a year that is not in the list and neither button works
StrandedOutsideTheList ==
  /\ ~includes(years, currentYear)
  /\ prevDisabled(years, currentYear)
  /\ nextDisabled(years, currentYear)

C27_VisibleYearInYearList ==
  linRoot =>
    /\ includes(years, currentYear)
    /\ ~StrandedOutsideTheList

\* the year shown is always a year of the list the component was mounted
\* with or of a list it has had since: the clicks never leave the list
C27_ClicksStayInList ==
  [][(linRoot /\ years' = years /\ includes(years, currentYear))
       => includes(years', currentYear')]_vars

\* records are shown, none of them in the year the view is on, and both
\* buttons are disabled
C27_Witness ==
  /\ linRoot
  /\ linEntries # << >>
  /\ StrandedOutsideTheList
  /\ currentYear < years[1]



(***************************************************************************)
(* C28.  A drop writes start and end consistently even when a              *)
(* configuration reload comes between the call and the mutator: the        *)
(* property names are captured when updateEntryDates is called, and when a *)
(* new end was supplied the mutation writes both the start and the end     *)
(* under the captured names or writes nothing; it never writes the new     *)
(* start and skips the new end.                                            *)
(***************************************************************************)
\* the mutator of the drop has run
Mutated == IF drop = NULL THEN FALSE ELSE drop.phase = "done" /\ drop.outcome = "resolved"

\* the drop's call of updateEntryDates was given a new end
EndSupplied == IF drop.update = NULL THEN FALSE ELSE drop.update.newEnd # NULL

WritesOf(key) == {i \in 1..Len(drop.writes) : drop.writes[i].key = key}

C28_DropWritesStartAndEndTogether ==
  (Mutated /\ EndSupplied) =>
    \/ drop.writes = << >>
    \/ /\ drop.update.extractedEndProp # NULL
       /\ \E i \in WritesOf(drop.update.extractedStartProp.v) :
            drop.writes[i].value = formatDate(drop.update.newStart)
       /\ \E i \in WritesOf(drop.update.extractedEndProp.v) :
            drop.writes[i].value = formatDate(drop.update.newEnd)

\* every assignment of the mutator is under a name captured at the call
C28_WritesUnderCapturedNames ==
  Mutated =>
    \A i \in 1..Len(drop.writes) :
      \/ drop.writes[i].key = drop.update.extractedStartProp.v
      \/ /\ drop.update.extractedEndProp # NULL
         /\ drop.writes[i].key = drop.update.extractedEndProp.v

\* the end-date property was unset while the drop was pending: the mutator
\* wrote the new start of a two-day event and left its end
C28_Witness ==
  /\ Mutated /\ EndSupplied
  /\ drop.update.extractedEndProp = [v |-> slice(NoteEnd, 5)]
  /\ drop.mutatedWith = NoProp
  /\ Len(drop.writes) = 1
  /\ drop.writes[1].key = slice(NoteStart, 5)



(***************************************************************************)
(* C29.  Editability and persistence agree: whenever the month view is     *)
(* rendered editable, a drop handled by updateEntryDates makes exactly one *)
(* front-matter write; whenever updateEntryDates decides not to write, the *)
(* view was rendered non-editable; so no drop is accepted on screen        *)
(* (resolved, not reverted) while nothing was persisted.                   *)
(***************************************************************************)
\* updateEntryDates would write for a drop under the view's properties
WouldWrite ==
  \A target \in DropTargets :
    updateEntryDates(calStartDateProp, calEndDateProp, 1, target, NULL) # NULL

\* updateEntryDates would return without writing
WouldNotWrite ==
  \A target \in DropTargets :
    updateEntryDates(calStartDateProp, calEndDateProp, 1, target, NULL) = NULL

\* the drop was left where the user put it
AcceptedOnScreen ==
  IF drop = NULL THEN FALSE
  ELSE drop.phase = "done" /\ drop.outcome = "resolved" /\ ~drop.revert

C29_EditabilityAgreesWithPersistence ==
  /\ calRoot => /\ editable => WouldWrite
                /\ WouldNotWrite => ~editable
  /\ drop # NULL =>
       /\ drop.calls = 1
       /\ drop.update # NULL
       /\ drop.phase = "done" /\ drop.outcome = "resolved" => Len(drop.writes) >= 1
  /\ AcceptedOnScreen =>
       \E i \in 1..Len(drop.writes) :
         /\ drop.writes[i].key = drop.update.extractedStartProp.v
         /\ drop.writes[i].value = formatDate(drop.newStart)

\* a drop was accepted on screen under an editable view and its start was
\* written; and the view is now rendered over a property of the file, not
\* editable
C29_Witness ==
  /\ AcceptedOnScreen
  /\ Len(drop.writes) >= 1
  /\ calRoot /\ ~editable
  /\ calEndDateProp = FileCtime
  /\ WouldNotWrite



(***************************************************************************)
(* C30.  The year list and the day-map agree: an entry left out of the     *)
(* day-map (end before start) adds nothing to the year range, so whenever  *)
(* at least one entry is in the day-map, the first and the last year of    *)
(* the list each hold an occupied day, and the year of every occupied day  *)
(* is in the list.                                                         *)
(***************************************************************************)
\* the year a day-map key names: the digits before its first dash
YearOfKey(key) == DigitsValue(SubSeq(key, 1, 4))

\* the years that hold an occupied day
OccupiedYears == {YearOfKey(key) : key \in DOMAIN entriesByDate}

C30_YearListMatchesDayMap ==
  (linRoot /\ DOMAIN entriesByDate # {}) =>
    /\ Len(years) > 0
    /\ years[1] \in OccupiedYears
    /\ years[Len(years)] \in OccupiedYears
    /\ \A y \in OccupiedYears : includes(years, y)

\* an entry of 2024 is shown beside a reversed entry that ends in another
\* year, and the year list is 2024 alone
C30_Witness ==
  /\ linRoot
  /\ OccupiedYears = {2024}
  /\ years = <<2024>>
  /\ \E i \in 1..Len(linEntries) :
       /\ LastDay(linEntries[i]) < FirstDay(linEntries[i])
       /\ YearsOf(linEntries[i]) # {2024}


=============================================================================
